---- MODULE Spec2Model ----
(***************************************************************************)
(* Expense tracker (Xusan-S/Expense): the transaction ledger, its filtered *)
(* listings and the admin statistics, modelled from                        *)
(*   internal/repository (transactionRepository),                          *)
(*   internal/service    (transactionService),                             *)
(*   internal/handler    (TransactionHandler).                             *)
(* The PostgreSQL tables are the variables users and txns; every SQL       *)
(* statement is one atomic read or write of them.                          *)
(***************************************************************************)
EXTENDS Integers, Sequences, FiniteSets, TLC

VARIABLES
    users,      \* table users: set of rows [id, phone, role]
    txns,       \* table transactions: function id -> row
    nextID,     \* the BIGSERIAL sequence behind transactions.id
    resp,       \* the response of the request handled last, [op |-> "none"] once sent
    agg,        \* the GetAggregatedStats call in flight (its queries run one by one)
    calls,      \* the UpdateTransaction and UploadReceipt calls in flight, between
                \* their lookup and their write
    files,      \* the uploads directory: function path -> content
    ctx,        \* the gin.Context of the request a route is serving
    db          \* ConnectDB: where it stands, the attempts made, what it returned

vars == <<users, txns, nextID, resp, agg, calls, files, ctx, db>>

(***************************************************************************)
(* Bounds of the model.                                                    *)
(***************************************************************************)
\* At most MaxTx transactions are ever inserted (ids 1..MaxTx).
MaxTx == 3

(***************************************************************************)
(* Go's optional-field-as-pointer idiom: nil is <<>>, &v is <<v>>.         *)
(***************************************************************************)
Nil == <<>>
Ptr(v) == <<v>>
IsNil(p) == Len(p) = 0
Deref(p) == p[1]

(***************************************************************************)
(* model.TransactionTypeIncome / Expense, model.RoleUser / RoleAdmin.      *)
(***************************************************************************)
TransactionTypeIncome == "income"
TransactionTypeExpense == "expense"
RoleUser == "user"
RoleAdmin == "admin"

(***************************************************************************)
(* Service errors (errors.New values) and the other error kinds.           *)
(***************************************************************************)
ErrTransactionNotFound == "transaction not found"
ErrForbidden == "forbidden: user does not have permission for this action"
ErrInvalidFileFormat == "invalid file format. only .jpg, .png, .pdf are allowed"
ErrFileSizeExceeded == "file size exceeds limit"
ErrReceiptNotFound == "receipt not found for this transaction"
ErrStore == "store failure"
NoErr == "nil"

(***************************************************************************)
(* time.Time.  An instant is day * TicksPerDay + tick, where the ticks of  *)
(* a day are the wall-clock readings below, in order.  The second reading  *)
(* has hour, minute and second zero but is not the first instant of the    *)
(* day; the last is 23:59:59.999999999.                                    *)
(***************************************************************************)
ClockReadings ==
    << [h |-> 0,  m |-> 0,  s |-> 0,  ns |-> 0],
       [h |-> 0,  m |-> 0,  s |-> 0,  ns |-> 500000000],
       [h |-> 12, m |-> 0,  s |-> 0,  ns |-> 0],
       [h |-> 23, m |-> 59, s |-> 59, ns |-> 999999999] >>

TicksPerDay == Len(ClockReadings)

DayOf(t) == t \div TicksPerDay
Reading(t) == ClockReadings[(t % TicksPerDay) + 1]
Hour(t) == Reading(t).h
Minute(t) == Reading(t).m
Second(t) == Reading(t).s

\* time.Date(y, mo, d, h, m, s, ns, loc) for a day of the model
Date(day, h, m, s, ns) ==
    day * TicksPerDay
      + (CHOOSE i \in 1..TicksPerDay :
            ClockReadings[i] = [h |-> h, m |-> m, s |-> s, ns |-> ns]) - 1

(***************************************************************************)
(* Rows.                                                                   *)
(***************************************************************************)
\* model.Transaction as stored in table transactions
Transaction(id, userID, amount, type, category, description, date, receipt, createdAt, updatedAt) ==
    [id |-> id, user_id |-> userID, amount |-> amount, type |-> type,
     category |-> category, description |-> description,
     transaction_date |-> date, receipt_path |-> receipt,
     created_at |-> createdAt, updated_at |-> updatedAt]

\* the rows of table transactions
Rows == {txns[i] : i \in DOMAIN txns}

(***************************************************************************)
(* A parameterised WHERE clause: the conditions joined by AND, each        *)
(* [col, op, arg] standing for "t.<col> <op> $<arg>", and the argument     *)
(* list the query is run with.                                             *)
(***************************************************************************)
Cond(col, op, arg) == [col |-> col, op |-> op, arg |-> arg]

\* Holds with the date bounds exclusive
Holds_ExclusiveBounds(row, c, args) ==
    CASE c.op = "="  -> row[c.col] = args[c.arg]
      [] c.op = ">=" -> row[c.col] > args[c.arg]
      [] c.op = "<=" -> row[c.col] < args[c.arg]

Holds(row, c, args) ==
    CASE c.op = "="  -> row[c.col] = args[c.arg]
      [] c.op = ">=" -> row[c.col] >= args[c.arg]
      [] c.op = "<=" -> row[c.col] <= args[c.arg]

\* PostgreSQL refuses a statement whose placeholders and arguments differ in number
BindOK(conds, args) ==
    /\ \A i \in 1..Len(conds) : conds[i].arg \in 1..Len(args)
    /\ \A n \in 1..Len(args) : \E i \in 1..Len(conds) : conds[i].arg = n

Matching(rows, conds, args) ==
    {r \in rows : \A i \in 1..Len(conds) : Holds(r, conds[i], args)}

RECURSIVE SumAmount(_)
SumAmount(S) ==
    IF S = {} THEN 0
    ELSE LET r == CHOOSE x \in S : TRUE
         IN r.amount + SumAmount(S \ {r})

(***************************************************************************)
(* The tables' constraints (config.AutoMigrate).                           *)
(***************************************************************************)
\* transactions.type ... CHECK (type IN ('income', 'expense'))
TypeCheck(type) == type \in {TransactionTypeIncome, TransactionTypeExpense}

\* FOREIGN KEY (user_id) REFERENCES users(id)
UserExists(userID) == \E u \in users : u.id = userID

(***************************************************************************)
(* transactionRepository: the single-row statements.                       *)
(***************************************************************************)
\* FindByID: the row, or nil (pgx.ErrNoRows)
FindByID(id) == IF id \in DOMAIN txns THEN Ptr(txns[id]) ELSE Nil

\* Create: INSERT ... RETURNING id; the table after it, or the constraint failure
Create(t) ==
    IF TypeCheck(t.type) /\ UserExists(t.user_id)
    THEN [err |-> NoErr, row |-> [t EXCEPT !.id = nextID],
          table |-> [i \in DOMAIN txns \cup {nextID} |->
                        IF i = nextID THEN [t EXCEPT !.id = nextID] ELSE txns[i]]]
    ELSE [err |-> ErrStore, row |-> t, table |-> txns]

\* Update: UPDATE ... SET amount, type, category, description, transaction_date,
\* updated_at = NOW() WHERE id = $6 AND user_id = $7 RETURNING updated_at
Update(t, now) ==
    IF t.id \in DOMAIN txns /\ txns[t.id].user_id = t.user_id
    THEN IF TypeCheck(t.type)
         THEN [err |-> NoErr,
               table |-> [txns EXCEPT ![t.id] =
                            [@ EXCEPT !.amount = t.amount, !.type = t.type,
                                      !.category = t.category,
                                      !.description = t.description,
                                      !.transaction_date = t.transaction_date,
                                      !.updated_at = now]]]
         ELSE [err |-> ErrStore, table |-> txns]
    ELSE [err |-> "transaction not found or not owned by user for update", table |-> txns]

\* Delete: DELETE FROM transactions WHERE id = $1, RowsAffected() = 0 is an error
Delete(id) ==
    IF id \in DOMAIN txns
    THEN [err |-> NoErr, table |-> [i \in DOMAIN txns \ {id} |-> txns[i]]]
    ELSE [err |-> "transaction not found for deletion", table |-> txns]

(***************************************************************************)
(* The WHERE builders.  Each state is the conditions so far, the args so   *)
(* far and argCount, the number of the next placeholder.                   *)
(***************************************************************************)
AddCond(w, col, op, v) ==
    [conds |-> Append(w.conds, Cond(col, op, w.argCount)),
     args |-> Append(w.args, v),
     argCount |-> w.argCount + 1]

\* the last clause of FindByUser and FindAll: argCount++ is commented out
AddLastCond(w, col, op, v) ==
    [conds |-> Append(w.conds, Cond(col, op, w.argCount)),
     args |-> Append(w.args, v),
     argCount |-> w.argCount]

\* FindByUser: WHERE user_id = $1 [AND type = ..] [AND category = ..] [AND
\* transaction_date >= ..] [AND transaction_date <= ..]
FindByUserWhere(userID, filters) ==
    LET w0 == [conds |-> <<Cond("user_id", "=", 1)>>, args |-> <<userID>>, argCount |-> 2]
        w1 == IF ~IsNil(filters.Type) /\ Deref(filters.Type) # ""
              THEN AddCond(w0, "type", "=", Deref(filters.Type)) ELSE w0
        w2 == IF ~IsNil(filters.Category) /\ Deref(filters.Category) # ""
              THEN AddCond(w1, "category", "=", Deref(filters.Category)) ELSE w1
        w3 == IF ~IsNil(filters.StartDate)
              THEN AddCond(w2, "transaction_date", ">=", Deref(filters.StartDate)) ELSE w2
        w4 == IF ~IsNil(filters.EndDate)
              THEN AddLastCond(w3, "transaction_date", "<=", Deref(filters.EndDate)) ELSE w3
    IN w4

\* FindAll had it no clause for StartDate
FindAllWhere_SkipsStartDate(filters) ==
    LET w0 == [conds |-> <<>>, args |-> <<>>, argCount |-> 1]
        w1 == IF ~IsNil(filters.UserID)
              THEN AddCond(w0, "user_id", "=", Deref(filters.UserID)) ELSE w0
        w2 == IF ~IsNil(filters.Type) /\ Deref(filters.Type) # ""
              THEN AddCond(w1, "type", "=", Deref(filters.Type)) ELSE w1
        w3 == IF ~IsNil(filters.Category) /\ Deref(filters.Category) # ""
              THEN AddCond(w2, "category", "=", Deref(filters.Category)) ELSE w2
        w5 == IF ~IsNil(filters.EndDate)
              THEN AddLastCond(w3, "transaction_date", "<=", Deref(filters.EndDate)) ELSE w3
    IN w5

\* FindAll: the conditions of the admin filter, joined by AND
FindAllWhere(filters) ==
    LET w0 == [conds |-> <<>>, args |-> <<>>, argCount |-> 1]
        w1 == IF ~IsNil(filters.UserID)
              THEN AddCond(w0, "user_id", "=", Deref(filters.UserID)) ELSE w0
        w2 == IF ~IsNil(filters.Type) /\ Deref(filters.Type) # ""
              THEN AddCond(w1, "type", "=", Deref(filters.Type)) ELSE w1
        w3 == IF ~IsNil(filters.Category) /\ Deref(filters.Category) # ""
              THEN AddCond(w2, "category", "=", Deref(filters.Category)) ELSE w2
        w4 == IF ~IsNil(filters.StartDate)
              THEN AddCond(w3, "transaction_date", ">=", Deref(filters.StartDate)) ELSE w3
        w5 == IF ~IsNil(filters.EndDate)
              THEN AddLastCond(w4, "transaction_date", "<=", Deref(filters.EndDate)) ELSE w4
    IN w5

\* GetAggregatedStats had it no clause for Category
StatsWhere_SkipsCategory(filters) ==
    LET w0 == [conds |-> <<>>, args |-> <<>>, argCount |-> 1]
        w1 == IF ~IsNil(filters.UserID)
              THEN AddCond(w0, "user_id", "=", Deref(filters.UserID)) ELSE w0
        w2 == IF ~IsNil(filters.Type) /\ Deref(filters.Type) # ""
              THEN AddCond(w1, "type", "=", Deref(filters.Type)) ELSE w1
        w4 == IF ~IsNil(filters.StartDate)
              THEN AddCond(w2, "transaction_date", ">=", Deref(filters.StartDate)) ELSE w2
        w5 == IF ~IsNil(filters.EndDate)
              THEN AddCond(w4, "transaction_date", "<=", Deref(filters.EndDate)) ELSE w4
    IN w5

\* GetAggregatedStats: the same conditions; here argCount is advanced after each
StatsWhere(filters) ==
    LET w0 == [conds |-> <<>>, args |-> <<>>, argCount |-> 1]
        w1 == IF ~IsNil(filters.UserID)
              THEN AddCond(w0, "user_id", "=", Deref(filters.UserID)) ELSE w0
        w2 == IF ~IsNil(filters.Type) /\ Deref(filters.Type) # ""
              THEN AddCond(w1, "type", "=", Deref(filters.Type)) ELSE w1
        w3 == IF ~IsNil(filters.Category) /\ Deref(filters.Category) # ""
              THEN AddCond(w2, "category", "=", Deref(filters.Category)) ELSE w2
        w4 == IF ~IsNil(filters.StartDate)
              THEN AddCond(w3, "transaction_date", ">=", Deref(filters.StartDate)) ELSE w3
        w5 == IF ~IsNil(filters.EndDate)
              THEN AddCond(w4, "transaction_date", "<=", Deref(filters.EndDate)) ELSE w4
    IN w5

(***************************************************************************)
(* ORDER BY transaction_date DESC, created_at DESC.  Rows equal in both    *)
(* keys come in whatever order the server produces.                        *)
(***************************************************************************)
\* row a sorts strictly before row b
SortsBefore(a, b) ==
    \/ a.transaction_date > b.transaction_date
    \/ a.transaction_date = b.transaction_date /\ a.created_at > b.created_at

\* OrderBy without the second key: ORDER BY transaction_date DESC
OrderBy_DateOnly(S) ==
    {s \in [1..Cardinality(S) -> S] :
        /\ \A i, j \in 1..Cardinality(S) : i # j => s[i] # s[j]
        /\ \A i, j \in 1..Cardinality(S) :
              i < j => s[i].transaction_date >= s[j].transaction_date}

\* every sequence the ORDER BY may return for the row set S
OrderBy(S) ==
    {s \in [1..Cardinality(S) -> S] :
        /\ \A i, j \in 1..Cardinality(S) : i # j => s[i] # s[j]
        /\ \A i, j \in 1..Cardinality(S) : i < j => ~SortsBefore(s[j], s[i])}

(***************************************************************************)
(* transactionRepository: the listings.  [err, set] with set the rows the  *)
(* statement selects; the call returns them in one of OrderBy(set).        *)
(***************************************************************************)
FindByUser(userID, filters) ==
    LET w == FindByUserWhere(userID, filters)
    IN IF BindOK(w.conds, w.args)
       THEN [err |-> NoErr, set |-> Matching(Rows, w.conds, w.args)]
       ELSE [err |-> ErrStore, set |-> {}]

FindAll(filters) ==
    LET w == FindAllWhere(filters)
    IN IF BindOK(w.conds, w.args)
       THEN [err |-> NoErr, set |-> Matching(Rows, w.conds, w.args)]
       ELSE [err |-> ErrStore, set |-> {}]

(***************************************************************************)
(* transactionRepository.GetAggregatedStats: four statements over          *)
(* "FROM transactions t JOIN users u ON t.user_id = u.id", each with the   *)
(* WHERE clause of the filter.                                             *)
(***************************************************************************)
\* the rows of the join, each a transaction row with its owner's phone
StatsJoin ==
    {[t |-> p[1], phone |-> p[2].phone] :
        p \in {q \in Rows \X users : q[1].user_id = q[2].id}}

\* the rows of the join that satisfy the conditions
StatsMatching(conds, args) ==
    {j \in StatsJoin : \A i \in 1..Len(conds) : Holds(j.t, conds[i], args)}

\* SUM(t.amount) over rows of the join
RECURSIVE SumJoin(_)
SumJoin(J) ==
    IF J = {} THEN 0
    ELSE LET j == CHOOSE x \in J : TRUE
         IN j.t.amount + SumJoin(J \ {j})

\* COALESCE(SUM(CASE WHEN t.type = <type> THEN t.amount ELSE 0 END), 0)
SumCase(J, type) == SumJoin({j \in J : j.t.type = type})

\* the totals statement had Balance been the sum of the two totals
SumQuery_BalanceAdds(filters) ==
    LET w == StatsWhere(filters)
        J == StatsMatching(w.conds, w.args)
        income == SumCase(J, TransactionTypeIncome)
        expenses == SumCase(J, TransactionTypeExpense)
    IN IF BindOK(w.conds, w.args)
       THEN [err |-> NoErr, TotalIncome |-> income, TotalExpenses |-> expenses,
             Balance |-> income + expenses]
       ELSE [err |-> ErrStore, TotalIncome |-> 0, TotalExpenses |-> 0, Balance |-> 0]

\* the totals statement; Balance is derived from its two sums
SumQuery(filters) ==
    LET w == StatsWhere(filters)
        J == StatsMatching(w.conds, w.args)
        income == SumCase(J, TransactionTypeIncome)
        expenses == SumCase(J, TransactionTypeExpense)
    IN IF BindOK(w.conds, w.args)
       THEN [err |-> NoErr, TotalIncome |-> income, TotalExpenses |-> expenses,
             Balance |-> income - expenses]
       ELSE [err |-> ErrStore, TotalIncome |-> 0, TotalExpenses |-> 0, Balance |-> 0]

\* SELECT t.category, COALESCE(SUM(t.amount), 0) ... GROUP BY t.category
GroupByCategory(J) ==
    [c \in {j.t.category : j \in J} |->
        SumJoin({j \in J : j.t.category = c})]

\* the category grouping had it not added "t.type = $argCount" for a filter
\* with no type
CategoryQuery_NoTypeClause(filters, type) ==
    LET w == StatsWhere(filters)
    IN IF IsNil(filters.Type) \/ (~IsNil(filters.Type) /\ Deref(filters.Type) = type)
       THEN IF BindOK(w.conds, w.args)
            THEN [err |-> NoErr, map |-> GroupByCategory(StatsMatching(w.conds, w.args))]
            ELSE [err |-> ErrStore, map |-> <<>>]
       ELSE [err |-> NoErr, map |-> <<>>]

\* the category grouping had it run whatever the type of the filter
CategoryQuery_AnyType(filters, type) ==
    LET w == StatsWhere(filters)
        wt == IF IsNil(filters.Type)
              THEN [conds |-> Append(w.conds, Cond("type", "=", w.argCount)),
                    args |-> Append(w.args, type)]
              ELSE [conds |-> w.conds, args |-> w.args]
    IN IF BindOK(wt.conds, wt.args)
       THEN [err |-> NoErr, map |-> GroupByCategory(StatsMatching(wt.conds, wt.args))]
       ELSE [err |-> ErrStore, map |-> <<>>]

\* one category grouping: computed when the filter has no type or has this
\* type; with no type in the filter, "t.type = $argCount" is added to the clause
CategoryQuery(filters, type) ==
    LET w == StatsWhere(filters)
        wt == IF IsNil(filters.Type)
              THEN [conds |-> Append(w.conds, Cond("type", "=", w.argCount)),
                    args |-> Append(w.args, type)]
              ELSE [conds |-> w.conds, args |-> w.args]
    IN IF IsNil(filters.Type) \/ (~IsNil(filters.Type) /\ Deref(filters.Type) = type)
       THEN IF BindOK(wt.conds, wt.args)
            THEN [err |-> NoErr, map |-> GroupByCategory(StatsMatching(wt.conds, wt.args))]
            ELSE [err |-> ErrStore, map |-> <<>>]
       ELSE [err |-> NoErr, map |-> <<>>]

\* model.UserStat
UserStat(userID, phone, spent, income, count) ==
    [UserID |-> userID, UserPhone |-> phone, TotalSpent |-> spent,
     TotalIncome |-> income, TransactionCount |-> count]

\* the per-owner statement had it run without the WHERE clause
UserSpendingQuery_Unfiltered(filters) ==
    LET J == StatsJoin
        groups == {<<j.t.user_id, j.phone>> : j \in J}
        Group(g) == {j \in J : j.t.user_id = g[1] /\ j.phone = g[2]}
        Stat(g) == UserStat(g[1], g[2],
                            SumCase(Group(g), TransactionTypeExpense),
                            SumCase(Group(g), TransactionTypeIncome),
                            Cardinality(Group(g)))
    IN [err |-> NoErr,
        map |-> [uid \in {g[1] : g \in groups} |->
                   Stat(CHOOSE g \in groups : g[1] = uid)]]

\* the per-owner statement: GROUP BY t.user_id, u.phone, stored by user id
UserSpendingQuery(filters) ==
    LET w == StatsWhere(filters)
        J == StatsMatching(w.conds, w.args)
        groups == {<<j.t.user_id, j.phone>> : j \in J}
        Group(g) == {j \in J : j.t.user_id = g[1] /\ j.phone = g[2]}
        Stat(g) == UserStat(g[1], g[2],
                            SumCase(Group(g), TransactionTypeExpense),
                            SumCase(Group(g), TransactionTypeIncome),
                            Cardinality(Group(g)))
    IN IF BindOK(w.conds, w.args)
       THEN [err |-> NoErr,
             map |-> [uid \in {g[1] : g \in groups} |->
                        Stat(CHOOSE g \in groups : g[1] = uid)]]
       ELSE [err |-> ErrStore, map |-> <<>>]

\* model.AggregatedStats as first made: zero totals, three empty maps
EmptyStats ==
    [TotalIncome |-> 0, TotalExpenses |-> 0, Balance |-> 0,
     ByCategoryIncome |-> <<>>, ByCategoryExpense |-> <<>>, ByUserSpending |-> <<>>]

\* what GetAggregatedStats returns, from the results of its four statements:
\* [err, stats], no statistics when a statement failed
AggregatedStats(sums, inc, exp, usr) ==
    IF sums.err # NoErr THEN [err |-> sums.err, stats |-> Nil]
    ELSE IF inc.err # NoErr THEN [err |-> inc.err, stats |-> Nil]
    ELSE IF exp.err # NoErr THEN [err |-> exp.err, stats |-> Nil]
    ELSE IF usr.err # NoErr THEN [err |-> usr.err, stats |-> Nil]
    ELSE [err |-> NoErr,
          stats |-> Ptr([TotalIncome |-> sums.TotalIncome,
                         TotalExpenses |-> sums.TotalExpenses,
                         Balance |-> sums.Balance,
                         ByCategoryIncome |-> inc.map,
                         ByCategoryExpense |-> exp.map,
                         ByUserSpending |-> usr.map])]

\* GetAggregatedStats with no write between its statements
GetAggregatedStats(filters) ==
    AggregatedStats(SumQuery(filters),
                    CategoryQuery(filters, TransactionTypeIncome),
                    CategoryQuery(filters, TransactionTypeExpense),
                    UserSpendingQuery(filters))

(***************************************************************************)
(* The handlers' reading of the query string.  A parameter is a string,    *)
(* "" when it is not given.                                                *)
(***************************************************************************)
\* strconv.Atoi on the strings of the model
Atoi(s) ==
    CASE s = "1" -> [err |-> FALSE, v |-> 1]
      [] s = "2" -> [err |-> FALSE, v |-> 2]
      [] s = "3" -> [err |-> FALSE, v |-> 3]
      [] OTHER -> [err |-> TRUE, v |-> 0]

\* time.Parse("2006-01-02", s) on the strings of the model: midnight of the day
ParseDate(s) ==
    CASE s = "2024-01-05" -> [err |-> FALSE, t |-> Date(1, 0, 0, 0, 0)]
      [] s = "2024-01-10" -> [err |-> FALSE, t |-> Date(2, 0, 0, 0, 0)]
      [] OTHER -> [err |-> TRUE, t |-> Date(0, 0, 0, 0, 0)]

\* model.AdminTransactionFilters
AdminTransactionFilters(userID, type, category, start, end) ==
    [UserID |-> userID, Type |-> type, Category |-> category,
     StartDate |-> start, EndDate |-> end]

\* model.UserTransactionFilters
UserTransactionFilters(type, category, start, end) ==
    [Type |-> type, Category |-> category, StartDate |-> start, EndDate |-> end]

\* the filter the three admin handlers build from the query q, or the 400
AdminFilters(q) ==
    LET uid == Atoi(q.user_id)
        sd == ParseDate(q.start_date)
        ed == ParseDate(q.end_date)
    IN IF q.user_id # "" /\ uid.err THEN [status |-> 400, filters |-> Nil]
       ELSE IF q.start_date # "" /\ sd.err THEN [status |-> 400, filters |-> Nil]
       ELSE IF q.end_date # "" /\ ed.err THEN [status |-> 400, filters |-> Nil]
       ELSE [status |-> 200,
             filters |-> Ptr(AdminTransactionFilters(
                IF q.user_id # "" THEN Ptr(uid.v) ELSE Nil,
                IF q.type # "" THEN Ptr(q.type) ELSE Nil,
                IF q.category # "" THEN Ptr(q.category) ELSE Nil,
                IF q.start_date # "" THEN Ptr(sd.t) ELSE Nil,
                IF q.end_date # ""
                THEN Ptr(Date(DayOf(ed.t), 23, 59, 59, 999999999)) ELSE Nil))]

(***************************************************************************)
(* Requests.  A request is handled when no response is waiting to be sent; *)
(* Respond sends it.                                                       *)
(***************************************************************************)
NoResponse == [op |-> "none"]
Idle == resp = NoResponse

\* no request is being served by a route
NoContext == [handler |-> "none"]

\* the zero time.Time, for which IsZero() holds
ZeroTime == Date(0, 0, 0, 0, 0)

\* model.CreateTransactionRequest
CreateTransactionRequest(amount, type, category, description, date) ==
    [Amount |-> amount, Type |-> type, Category |-> category,
     Description |-> description, TransactionDate |-> date]

\* binding:"required,gt=0", "required,oneof=income expense", "required"
CreateBindingOK(req) ==
    /\ req.Amount > 0
    /\ req.Type \in {"income", "expense"}
    /\ req.Category # ""

\* POST /transactions: TransactionHandler.CreateTransaction and
\* transactionService.CreateTransaction, at time now
CreateTransaction(userID, req, now) ==
    /\ Idle
    /\ nextID <= MaxTx
    /\ IF ~CreateBindingOK(req)
       THEN /\ resp' = [op |-> "CreateTransaction", status |-> 400, err |-> "validation"]
            /\ UNCHANGED <<txns, nextID, db>>
       ELSE LET date == IF req.TransactionDate = ZeroTime THEN now ELSE req.TransactionDate
                t == Transaction(0, userID, req.Amount, req.Type, req.Category,
                                 req.Description, date, Nil, now, now)
                r == Create(t)
            IN IF r.err # NoErr
               THEN /\ resp' = [op |-> "CreateTransaction", status |-> 500, err |-> r.err]
                    /\ UNCHANGED <<txns, nextID, db>>
               ELSE /\ txns' = r.table
                    /\ nextID' = nextID + 1
                    /\ resp' = [op |-> "CreateTransaction", status |-> 201,
                                err |-> NoErr, row |-> r.row]
    /\ UNCHANGED <<users, agg, calls, files, ctx, db>>

\* model.UpdateTransactionRequest: every field a pointer
UpdateTransactionRequest(amount, type, category, description, date) ==
    [Amount |-> amount, Type |-> type, Category |-> category,
     Description |-> description, TransactionDate |-> date]

\* binding:"omitempty,oneof=income expense" on Type
UpdateBindingOK(req) ==
    IsNil(req.Type) \/ Deref(req.Type) \in {"income", "expense"}

\* transactionService.UpdateTransaction: [err, table]
UpdateTransactionService(transactionID, userID, req, now) ==
    LET found == FindByID(transactionID)
    IN IF IsNil(found) THEN [err |-> ErrTransactionNotFound, table |-> txns]
       ELSE IF Deref(found).user_id # userID THEN [err |-> ErrForbidden, table |-> txns]
       ELSE LET e == Deref(found)
                t == [e EXCEPT
                        !.amount = IF ~IsNil(req.Amount) THEN Deref(req.Amount) ELSE @,
                        !.type = IF ~IsNil(req.Type) THEN Deref(req.Type) ELSE @,
                        !.category = IF ~IsNil(req.Category) THEN Deref(req.Category) ELSE @,
                        !.description = IF ~IsNil(req.Description) THEN req.Description ELSE @,
                        !.transaction_date =
                            IF ~IsNil(req.TransactionDate) THEN Deref(req.TransactionDate) ELSE @,
                        !.updated_at = now]
                r == Update(t, now)
            IN IF r.err # NoErr
               THEN [err |-> "failed to update transaction in repo", table |-> txns]
               ELSE [err |-> NoErr, table |-> r.table]

\* PUT /transactions/:id: TransactionHandler.UpdateTransaction
UpdateTransaction(userID, transactionID, req, now) ==
    /\ Idle
    /\ IF ~UpdateBindingOK(req)
       THEN /\ resp' = [op |-> "UpdateTransaction", status |-> 400, err |-> "validation"]
            /\ UNCHANGED txns
       ELSE LET r == UpdateTransactionService(transactionID, userID, req, now)
            IN /\ txns' = r.table
               /\ resp' = [op |-> "UpdateTransaction", err |-> r.err,
                           status |-> IF r.err = NoErr THEN 200
                                      ELSE IF r.err = ErrTransactionNotFound THEN 404
                                      ELSE IF r.err = ErrForbidden THEN 403
                                      ELSE 500]
    /\ UNCHANGED <<users, nextID, agg, calls, files, ctx, db>>

\* DeleteTransaction without the administrator's exemption
DeleteTransactionService_OwnerOnly(transactionID, userID, userRole) ==
    LET found == FindByID(transactionID)
    IN IF IsNil(found) THEN [err |-> ErrTransactionNotFound, table |-> txns]
       ELSE IF Deref(found).user_id # userID
       THEN [err |-> ErrForbidden, table |-> txns]
       ELSE LET r == Delete(transactionID)
            IN IF r.err # NoErr
               THEN [err |-> "failed to delete transaction in repo", table |-> txns]
               ELSE [err |-> NoErr, table |-> r.table]

\* transactionService.DeleteTransaction: [err, table]
DeleteTransactionService(transactionID, userID, userRole) ==
    LET found == FindByID(transactionID)
    IN IF IsNil(found) THEN [err |-> ErrTransactionNotFound, table |-> txns]
       ELSE IF userRole # RoleAdmin /\ Deref(found).user_id # userID
       THEN [err |-> ErrForbidden, table |-> txns]
       ELSE LET r == Delete(transactionID)
            IN IF r.err # NoErr
               THEN [err |-> "failed to delete transaction in repo", table |-> txns]
               ELSE [err |-> NoErr, table |-> r.table]

\* DELETE /transactions/:id: TransactionHandler.DeleteTransaction
DeleteTransaction(userID, userRole, transactionID) ==
    /\ Idle
    /\ LET r == DeleteTransactionService(transactionID, userID, userRole)
       IN /\ txns' = r.table
          /\ resp' = [op |-> "DeleteTransaction", err |-> r.err,
                      userID |-> userID, userRole |-> userRole, id |-> transactionID,
                      status |-> IF r.err = NoErr THEN 200
                                 ELSE IF r.err = ErrTransactionNotFound THEN 404
                                 ELSE IF r.err = ErrForbidden THEN 403
                                 ELSE 500]
    /\ UNCHANGED <<users, nextID, agg, calls, files, ctx, db>>

\* the answer of GET /admin/stats to query q, r being what the service returned
StatisticsResponse(q, filters, r) ==
    [op |-> "GetStatisticsAdmin",
     status |-> IF r.err = NoErr THEN 200 ELSE 500,
     err |-> r.err, q |-> q, filters |-> filters, stats |-> r.stats]

\* GET /admin/stats: TransactionHandler.GetStatisticsAdmin and
\* transactionService.GetStatisticsAdmin, with no write during the call
GetStatisticsAdmin(q) ==
    /\ Idle
    /\ LET f == AdminFilters(q)
       IN IF f.status = 400
          THEN resp' = [op |-> "GetStatisticsAdmin", status |-> 400, err |-> "validation"]
          ELSE resp' = StatisticsResponse(q, Deref(f.filters),
                                          GetAggregatedStats(Deref(f.filters)))
    /\ UNCHANGED <<users, txns, nextID, agg, calls, files, ctx, db>>

\* GetUserTransactionsFilters without the single-day rule: a lone start stays
\* an open lower bound
GetUserTransactionsFilters_OpenStart(filters) ==
    IF /\ ~IsNil(filters.EndDate)
       /\ Hour(Deref(filters.EndDate)) = 0
       /\ Minute(Deref(filters.EndDate)) = 0
       /\ Second(Deref(filters.EndDate)) = 0
    THEN [filters EXCEPT
            !.EndDate = Ptr(Date(DayOf(Deref(filters.EndDate)), 23, 59, 59, 999999999))]
    ELSE filters

\* the date adjustment of transactionService.GetUserTransactions: the filter
\* it hands to FindByUser
GetUserTransactionsFilters(filters) ==
    LET f1 == IF /\ ~IsNil(filters.StartDate)
                 /\ Hour(Deref(filters.StartDate)) = 0
                 /\ Minute(Deref(filters.StartDate)) = 0
                 /\ Second(Deref(filters.StartDate)) = 0
              THEN LET startOfDay == Date(DayOf(Deref(filters.StartDate)), 0, 0, 0, 0)
                   IN [filters EXCEPT
                         !.StartDate = Ptr(startOfDay),
                         !.EndDate = IF IsNil(@)
                                     THEN Ptr(Date(DayOf(startOfDay), 23, 59, 59, 999999999))
                                     ELSE @]
              ELSE filters
    IN IF /\ ~IsNil(f1.EndDate)
          /\ Hour(Deref(f1.EndDate)) = 0
          /\ Minute(Deref(f1.EndDate)) = 0
          /\ Second(Deref(f1.EndDate)) = 0
       THEN [f1 EXCEPT !.EndDate = Ptr(Date(DayOf(Deref(f1.EndDate)), 23, 59, 59, 999999999))]
       ELSE f1

\* transactionService.GetUserTransactions: [err, set, filters]
GetUserTransactionsService(userID, filters) ==
    LET f == GetUserTransactionsFilters(filters)
        r == FindByUser(userID, f)
    IN [err |-> IF r.err = NoErr THEN NoErr
                ELSE "failed to get user transactions from repo",
        set |-> r.set, filters |-> f]

\* a call of transactionService.GetUserTransactions with the filter raw
GetUserTransactions(userID, raw) ==
    /\ Idle
    /\ LET r == GetUserTransactionsService(userID, raw)
       IN IF r.err # NoErr
          THEN resp' = [op |-> "GetUserTransactions", status |-> 500, err |-> r.err,
                        userID |-> userID, raw |-> raw, filters |-> r.filters,
                        rows |-> <<>>]
          ELSE \E s \in OrderBy(r.set) :
                  resp' = [op |-> "GetUserTransactions", status |-> 200, err |-> NoErr,
                           userID |-> userID, raw |-> raw, filters |-> r.filters,
                           rows |-> s]
    /\ UNCHANGED <<users, txns, nextID, agg, calls, files, ctx, db>>

\* the filter TransactionHandler.GetMyTransactions builds from the query q
\* (type, category, date), or the 400
UserFilters(q) ==
    LET d == ParseDate(q.date)
    IN IF q.date # "" /\ d.err THEN [status |-> 400, filters |-> Nil]
       ELSE [status |-> 200,
             filters |-> Ptr(UserTransactionFilters(
                IF q.type # "" THEN Ptr(q.type) ELSE Nil,
                IF q.category # "" THEN Ptr(q.category) ELSE Nil,
                IF q.date # "" THEN Ptr(Date(DayOf(d.t), 0, 0, 0, 0)) ELSE Nil,
                IF q.date # "" THEN Ptr(Date(DayOf(d.t), 23, 59, 59, 999999999)) ELSE Nil))]

\* GET /transactions: TransactionHandler.GetMyTransactions
GetMyTransactions(userID, q) ==
    /\ Idle
    /\ LET f == UserFilters(q)
       IN IF f.status = 400
          THEN /\ resp' = [op |-> "GetUserTransactions", status |-> 400, err |-> "validation"]
               /\ UNCHANGED <<users, txns, nextID, agg, calls, files, ctx, db>>
          ELSE GetUserTransactions(userID, Deref(f.filters))

\* GET /admin/transactions: TransactionHandler.GetAllTransactionsAdmin and
\* transactionService.GetAllTransactionsAdmin
GetAllTransactionsAdmin(q) ==
    /\ Idle
    /\ LET f == AdminFilters(q)
       IN IF f.status = 400
          THEN resp' = [op |-> "GetAllTransactionsAdmin", status |-> 400, err |-> "validation"]
          ELSE LET r == FindAll(Deref(f.filters))
               IN IF r.err # NoErr
                  THEN resp' = [op |-> "GetAllTransactionsAdmin", status |-> 500,
                                err |-> "failed to get all transactions for admin",
                                q |-> q, filters |-> Deref(f.filters), rows |-> <<>>]
                  ELSE \E s \in OrderBy(r.set) :
                          resp' = [op |-> "GetAllTransactionsAdmin", status |-> 200,
                                   err |-> NoErr, q |-> q, filters |-> Deref(f.filters),
                                   rows |-> s]
    /\ UNCHANGED <<users, txns, nextID, agg, calls, files, ctx, db>>

\* the calendar dates of the model as "2006-01-02" prints them
DateString(day) ==
    CASE day = 1 -> "2024-01-05"
      [] day = 2 -> "2024-01-10"
      [] OTHER -> "0001-01-01"

Pad2(n) == IF n < 10 THEN "0" \o ToString(n) ELSE ToString(n)

\* t.Format(time.RFC3339): to the second, the fraction is not printed
FormatRFC3339(t) ==
    DateString(DayOf(t)) \o "T" \o Pad2(Hour(t)) \o ":" \o Pad2(Minute(t))
        \o ":" \o Pad2(Second(t)) \o "Z"

CSVHeader ==
    <<"ID", "UserID", "Amount", "Type", "Category", "Description",
      "TransactionDate", "CreatedAt", "ReceiptPath">>

\* a row with NULL for what is absent
CSVRow_AbsentAsNull(t) ==
    << ToString(t.id), ToString(t.user_id), ToString(t.amount), t.type, t.category,
       IF IsNil(t.description) THEN "NULL" ELSE Deref(t.description),
       FormatRFC3339(t.transaction_date), FormatRFC3339(t.created_at),
       IF IsNil(t.receipt_path) THEN "NULL" ELSE Deref(t.receipt_path) >>

\* the record written for transaction t
CSVRow(t) ==
    << ToString(t.id), ToString(t.user_id), ToString(t.amount), t.type, t.category,
       IF IsNil(t.description) THEN "" ELSE Deref(t.description),
       FormatRFC3339(t.transaction_date), FormatRFC3339(t.created_at),
       IF IsNil(t.receipt_path) THEN "" ELSE Deref(t.receipt_path) >>

\* transactionService.ExportTransactionsCSVAdmin over the listing rows: the
\* records handed to the csv.Writer, the header first
CSVRecords(rows) == <<CSVHeader>> \o [i \in 1..Len(rows) |-> CSVRow(rows[i])]

(***************************************************************************)
(* The bytes of the export.  A text is the sequence of its pieces: each of *)
(* the characters comma, quote, carriage return and line feed is a piece   *)
(* of its own, so is a leading space, and a run of other characters is one *)
(* piece.                                                                  *)
(***************************************************************************)
Comma == ","
Quote == "\""
CR == "\r"
LF == "\n"

\* the pieces of a string
Pieces(s) ==
    CASE s = "" -> <<>>
      [] s = "a,b" -> <<"a", Comma, "b">>
      [] s = "say \"hi\"" -> <<"say ", Quote, "hi", Quote>>
      [] s = "two\nlines" -> <<"two", LF, "lines">>
      [] s = "cr\r\nlf" -> <<"cr", CR, LF, "lf">>
      [] s = " lead" -> <<" ", "lead">>
      [] s = "x,\"y\"" -> <<"x", Comma, Quote, "y", Quote>>
      [] OTHER -> <<s>>

\* strconv.FormatInt(n, 10), strconv.Itoa(n): the decimal digits
RECURSIVE Digits(_)
Digits(n) == IF n < 10 THEN <<ToString(n)>> ELSE Append(Digits(n \div 10), ToString(n % 10))

FormatInt(n) == IF n < 0 THEN <<"-">> \o Digits(0 - n) ELSE Digits(n)

\* the fields of the row written for transaction t, as texts
CSVFields(t) ==
    << FormatInt(t.id), FormatInt(t.user_id), FormatInt(t.amount), Pieces(t.type),
       Pieces(t.category),
       IF IsNil(t.description) THEN <<>> ELSE Pieces(Deref(t.description)),
       Pieces(FormatRFC3339(t.transaction_date)), Pieces(FormatRFC3339(t.created_at)),
       IF IsNil(t.receipt_path) THEN <<>> ELSE Pieces(Deref(t.receipt_path)) >>

\* a csv.Writer that never quotes
FieldNeedsQuotes_Never(field) == FALSE

\* csv.Writer.fieldNeedsQuotes, Comma = ','
FieldNeedsQuotes(field) ==
    IF field = <<>> THEN FALSE
    ELSE IF field = <<"\\.">> THEN TRUE
    ELSE IF \E i \in DOMAIN field : field[i] \in {LF, CR, Quote, Comma} THEN TRUE
    ELSE field[1] = " "

\* the inside of a quoted field: a quote is written twice; with UseCRLF
\* false, \r and \n are written as they are
RECURSIVE Escaped(_)
Escaped(field) ==
    IF field = <<>> THEN <<>>
    ELSE (IF Head(field) = Quote THEN <<Quote, Quote>> ELSE <<Head(field)>>)
             \o Escaped(Tail(field))

\* csv.Writer.Write, one field
WriteField(field) ==
    IF FieldNeedsQuotes(field) THEN <<Quote>> \o Escaped(field) \o <<Quote>> ELSE field

\* csv.Writer.Write: the fields with commas between them, then \n
RECURSIVE WriteFields(_)
WriteFields(fields) ==
    IF Len(fields) = 1 THEN WriteField(fields[1])
    ELSE WriteField(Head(fields)) \o <<Comma>> \o WriteFields(Tail(fields))

WriteRecord(fields) == WriteFields(fields) \o <<LF>>

RECURSIVE WriteAll(_)
WriteAll(records) ==
    IF records = <<>> THEN <<>> ELSE WriteRecord(Head(records)) \o WriteAll(Tail(records))

\* the buffer ExportTransactionsCSVAdmin returns for the listing rows
Buffer(rows) ==
    WriteAll(<<[i \in 1..Len(CSVHeader) |-> Pieces(CSVHeader[i])]>>
                \o [i \in 1..Len(rows) |-> CSVFields(rows[i])])

\* GET /admin/transactions/export/csv: TransactionHandler.ExportTransactionsCSVAdmin
ExportTransactionsCSVAdmin(q) ==
    /\ Idle
    /\ LET f == AdminFilters(q)
       IN IF f.status = 400
          THEN resp' = [op |-> "ExportTransactionsCSVAdmin", status |-> 400,
                        err |-> "validation"]
          ELSE LET r == FindAll(Deref(f.filters))
               IN IF r.err # NoErr
                  THEN resp' = [op |-> "ExportTransactionsCSVAdmin", status |-> 500,
                                err |-> "failed to fetch transactions for CSV export",
                                q |-> q, filters |-> Deref(f.filters), csv |-> <<>>]
                  ELSE \E s \in OrderBy(r.set) :
                          resp' = [op |-> "ExportTransactionsCSVAdmin", status |-> 200,
                                   err |-> NoErr, q |-> q, filters |-> Deref(f.filters),
                                   csv |-> CSVRecords(s)]
    /\ UNCHANGED <<users, txns, nextID, agg, calls, files, ctx, db>>

\* GetTransactionByID deciding ownership before existence
GetTransactionByIDService_OwnerFirst(transactionID, userID, userRole) ==
    LET found == FindByID(transactionID)
    IN IF userRole # RoleAdmin /\ (IsNil(found) \/ Deref(found).user_id # userID)
       THEN [err |-> ErrForbidden, row |-> Nil]
       ELSE IF IsNil(found) THEN [err |-> ErrTransactionNotFound, row |-> Nil]
       ELSE [err |-> NoErr, row |-> found]

\* transactionService.GetTransactionByID: [err, row]
GetTransactionByIDService(transactionID, userID, userRole) ==
    LET found == FindByID(transactionID)
    IN IF IsNil(found) THEN [err |-> ErrTransactionNotFound, row |-> Nil]
       ELSE IF userRole # RoleAdmin /\ Deref(found).user_id # userID
       THEN [err |-> ErrForbidden, row |-> Nil]
       ELSE [err |-> NoErr, row |-> found]

\* GET /transactions/:id: TransactionHandler.GetTransactionByID
GetTransactionByID(userID, userRole, transactionID) ==
    /\ Idle
    /\ LET r == GetTransactionByIDService(transactionID, userID, userRole)
       IN resp' = [op |-> "GetTransactionByID", err |-> r.err, row |-> r.row,
                   userID |-> userID, userRole |-> userRole, id |-> transactionID,
                   status |-> IF r.err = NoErr THEN 200
                              ELSE IF r.err = ErrTransactionNotFound THEN 404
                              ELSE IF r.err = ErrForbidden THEN 403
                              ELSE 500]
    /\ UNCHANGED <<users, txns, nextID, agg, calls, files, ctx, db>>

\* transactionService.GetReceiptPath: [err, path]
GetReceiptPath(transactionID, userID, userRole) ==
    LET found == FindByID(transactionID)
    IN IF IsNil(found) THEN [err |-> ErrTransactionNotFound, path |-> ""]
       ELSE IF userRole # RoleAdmin /\ Deref(found).user_id # userID
       THEN [err |-> ErrForbidden, path |-> ""]
       ELSE IF IsNil(Deref(found).receipt_path) \/ Deref(found).receipt_path = Ptr("")
       THEN [err |-> ErrReceiptNotFound, path |-> ""]
       ELSE [err |-> NoErr, path |-> Deref(Deref(found).receipt_path)]

\* GET /transactions/:id/receipt: TransactionHandler.GetReceipt; whether the
\* file is on disk (os.Stat) is the environment's
GetReceipt(userID, userRole, transactionID) ==
    /\ Idle
    /\ LET r == GetReceiptPath(transactionID, userID, userRole)
       IN IF r.err # NoErr
          THEN resp' = [op |-> "GetReceipt", err |-> r.err,
                        userID |-> userID, userRole |-> userRole, id |-> transactionID,
                        status |-> IF r.err \in {ErrTransactionNotFound, ErrReceiptNotFound}
                                   THEN 404
                                   ELSE IF r.err = ErrForbidden THEN 403
                                   ELSE 500]
          ELSE \E onDisk \in BOOLEAN :
                  resp' = [op |-> "GetReceipt", err |-> NoErr,
                           userID |-> userID, userRole |-> userRole, id |-> transactionID,
                           status |-> IF onDisk THEN 200 ELSE 404]
    /\ UNCHANGED <<users, txns, nextID, agg, calls, files, ctx, db>>

(***************************************************************************)
(* UpdateTransaction and UploadReceipt step by step.  Neither holds a lock *)
(* or a database transaction between its lookup (FindByID) and its write,  *)
(* so other requests may be handled in between.  calls holds the calls     *)
(* that have done their lookup and not yet their write.                    *)
(***************************************************************************)
\* "Apply updates" of transactionService.UpdateTransaction: the row read, with
\* the fields the request carries replaced
ApplyUpdates(existingTx, req, now) ==
    [existingTx EXCEPT
        !.amount = IF ~IsNil(req.Amount) THEN Deref(req.Amount) ELSE @,
        !.type = IF ~IsNil(req.Type) THEN Deref(req.Type) ELSE @,
        !.category = IF ~IsNil(req.Category) THEN Deref(req.Category) ELSE @,
        !.description = IF ~IsNil(req.Description) THEN req.Description ELSE @,
        !.transaction_date =
            IF ~IsNil(req.TransactionDate) THEN Deref(req.TransactionDate) ELSE @,
        !.updated_at = now]

\* the answer to a request on one transaction
TransactionResponse(op, userID, transactionID, err) ==
    [op |-> op, userID |-> userID, id |-> transactionID, err |-> err,
     status |-> IF err = NoErr THEN 200
                ELSE IF err = ErrTransactionNotFound THEN 404
                ELSE IF err = ErrForbidden THEN 403
                ELSE IF err \in {ErrInvalidFileFormat, ErrFileSizeExceeded} THEN 400
                ELSE 500]

\* PUT /transactions/:id arrives: the body is bound, the service finds the
\* row, checks its owner and applies the request to the copy it holds
UpdateLookup(userID, transactionID, req, now) ==
    /\ Idle
    /\ IF ~UpdateBindingOK(req)
       THEN /\ resp' = [op |-> "UpdateTransaction", status |-> 400, err |-> "validation"]
            /\ UNCHANGED calls
       ELSE IF IsNil(FindByID(transactionID))
       THEN /\ resp' = TransactionResponse("UpdateTransaction", userID, transactionID,
                                           ErrTransactionNotFound)
            /\ UNCHANGED calls
       ELSE IF Deref(FindByID(transactionID)).user_id # userID
       THEN /\ resp' = TransactionResponse("UpdateTransaction", userID, transactionID,
                                           ErrForbidden)
            /\ UNCHANGED calls
       ELSE /\ calls' = calls \cup
                  {[op |-> "UpdateTransaction", userID |-> userID, id |-> transactionID,
                    req |-> req,
                    existingTx |-> ApplyUpdates(Deref(FindByID(transactionID)), req, now)]}
            /\ UNCHANGED resp
    /\ UNCHANGED <<users, txns, nextID, agg, files, ctx, db>>

\* the service hands the copy to transactionRepository.Update and the handler
\* answers
UpdateApply(call, now) ==
    /\ Idle
    /\ call \in calls
    /\ call.op = "UpdateTransaction"
    /\ calls' = calls \ {call}
    /\ txns' = Update(call.existingTx, now).table
    /\ resp' = TransactionResponse("UpdateTransaction", call.userID, call.id,
                  IF Update(call.existingTx, now).err = NoErr THEN NoErr
                  ELSE "failed to update transaction in repo")
    /\ UNCHANGED <<users, nextID, agg, files, ctx, db>>

\* const MaxFileSize = 5 * 1024 * 1024
MaxFileSize == 5242880

\* multipart.FileHeader, with the content of the file
FileHeader(filename, size, content) ==
    [Filename |-> filename, Size |-> size, Content |-> content]

\* filepath.Ext, filepath.Base and strings.ToLower on the names of the model
Ext(name) ==
    CASE name \in {"a.pdf", "dir/a.pdf"} -> ".pdf"
      [] name = "b.PNG" -> ".PNG"
      [] name = "c.exe" -> ".exe"
      [] OTHER -> ""

Base(name) ==
    CASE name = "dir/a.pdf" -> "a.pdf"
      [] OTHER -> name

ToLower(s) ==
    CASE s = ".PNG" -> ".png"
      [] s = "Bearer" -> "bearer"
      [] s = "BEARER" -> "bearer"
      [] s = "Basic" -> "basic"
      [] OTHER -> s

\* filepath.Join(baseUploadsDir, "transactions", id, fileName), with slashes
ReceiptFilePath(transactionID, filename) ==
    "uploads/transactions/" \o ToString(transactionID) \o "/" \o Base(filename)

\* the content of the file at path, nil when there is no such file
ReadFile(path) == IF path \in DOMAIN files THEN Ptr(files[path]) ELSE Nil

\* os.Create and io.Copy: the file at path holds content, whatever was there
WriteFile(path, content) ==
    [f \in DOMAIN files \cup {path} |-> IF f = path THEN content ELSE files[f]]

\* no clean-up: the file stays
RemoveFile_Keeps(path) == files

\* os.Remove
RemoveFile(path) == [f \in DOMAIN files \ {path} |-> files[f]]

\* the statement of UpdateReceiptPath without WHERE id = $2
UpdateReceiptPath_AllRows(id, receiptPath, now) ==
    IF id \in DOMAIN txns
    THEN [err |-> NoErr,
          table |-> [i \in DOMAIN txns |->
                       [txns[i] EXCEPT !.receipt_path = Ptr(receiptPath),
                                       !.updated_at = now]]]
    ELSE [err |-> "transaction not found for receipt path update", table |-> txns]

\* UpdateReceiptPath: UPDATE transactions SET receipt_path = $1, updated_at =
\* NOW() WHERE id = $2 RETURNING updated_at; no row is an error
UpdateReceiptPath(id, receiptPath, now) ==
    IF id \in DOMAIN txns
    THEN [err |-> NoErr,
          table |-> [txns EXCEPT ![id] = [@ EXCEPT !.receipt_path = Ptr(receiptPath),
                                                   !.updated_at = now]]]
    ELSE [err |-> "transaction not found for receipt path update", table |-> txns]

\* UploadReceipt without the comparison of the owner with the caller
UploadReceiptCheck_AnyCaller(transactionID, userID, fileHeader) ==
    IF IsNil(FindByID(transactionID)) THEN ErrTransactionNotFound
    ELSE IF fileHeader.Size > MaxFileSize THEN ErrFileSizeExceeded
    ELSE IF ToLower(Ext(fileHeader.Filename)) \notin {".jpg", ".jpeg", ".png", ".pdf"}
    THEN ErrInvalidFileFormat
    ELSE NoErr

\* what transactionService.UploadReceipt decides before it writes the file
UploadReceiptCheck(transactionID, userID, fileHeader) ==
    IF IsNil(FindByID(transactionID)) THEN ErrTransactionNotFound
    ELSE IF Deref(FindByID(transactionID)).user_id # userID THEN ErrForbidden
    ELSE IF fileHeader.Size > MaxFileSize THEN ErrFileSizeExceeded
    ELSE IF ToLower(Ext(fileHeader.Filename)) \notin {".jpg", ".jpeg", ".png", ".pdf"}
    THEN ErrInvalidFileFormat
    ELSE NoErr

\* POST /transactions/:id/receipt arrives: the service finds the row, checks
\* its owner and the file, and writes the file under the uploads directory; the
\* call remembers what the file at its path held before os.Create
UploadReceiptSave(userID, transactionID, fileHeader) ==
    /\ Idle
    /\ IF UploadReceiptCheck(transactionID, userID, fileHeader) # NoErr
       THEN /\ resp' = TransactionResponse("UploadReceipt", userID, transactionID,
                          UploadReceiptCheck(transactionID, userID, fileHeader))
            /\ UNCHANGED <<calls, files, db>>
       ELSE /\ files' = WriteFile(ReceiptFilePath(transactionID, fileHeader.Filename),
                                  fileHeader.Content)
            /\ calls' = calls \cup
                  {[op |-> "UploadReceipt", userID |-> userID, id |-> transactionID,
                    filePath |-> ReceiptFilePath(transactionID, fileHeader.Filename),
                    content |-> fileHeader.Content,
                    previous |-> ReadFile(ReceiptFilePath(transactionID,
                                                          fileHeader.Filename)),
                    transaction |-> Deref(FindByID(transactionID))]}
            /\ UNCHANGED resp
    /\ UNCHANGED <<users, txns, nextID, agg, ctx, db>>

\* the service calls UpdateReceiptPath; the statement fails when the store
\* does (storeFails) or when the row is gone, and then the file is removed
UploadReceiptUpdatePath(call, storeFails, now) ==
    /\ Idle
    /\ call \in calls
    /\ call.op = "UploadReceipt"
    /\ calls' = calls \ {call}
    /\ IF storeFails \/ UpdateReceiptPath(call.id, call.filePath, now).err # NoErr
       THEN /\ files' = RemoveFile(call.filePath)
            /\ resp' = TransactionResponse("UploadReceipt", call.userID, call.id,
                          "failed to update transaction with receipt path")
            /\ UNCHANGED txns
       ELSE /\ txns' = UpdateReceiptPath(call.id, call.filePath, now).table
            /\ resp' = TransactionResponse("UploadReceipt", call.userID, call.id, NoErr)
            /\ UNCHANGED files
    /\ UNCHANGED <<users, nextID, agg, ctx, db>>

(***************************************************************************)
(* The routes under /admin: JWTAuthMiddleware, AdminMiddleware, handler.   *)
(***************************************************************************)
\* the key NewJWTUtil was given
SecretKey == "secret"

\* a token string: whether it has the three segments of a JWT, the alg of
\* its header, the key it was signed with, whether exp has passed, its claims
Token(segments, alg, key, expired, userID, role) ==
    [segments |-> segments, alg |-> alg, key |-> key, expired |-> expired,
     user_id |-> userID, role |-> role]

\* NewJWTUtil
NewJWTUtil(secretKey, expirationHours) ==
    [secretKey |-> secretKey, expirationHours |-> expirationHours]

\* the largest number of hours whose length in nanoseconds fits the int64 of
\* a time.Duration: (2^63 - 1) \div 3600000000000
MaxDurationHours == 2562047

\* 2^64 nanoseconds in hours, rounded up
DurationWrapHours == 5124096

\* time.Hour * time.Duration(expirationHours) in whole hours: the product is
\* an int64 and wraps around
HoursDuration(expirationHours) ==
    LET h == expirationHours % DurationWrapHours
    IN IF h > MaxDurationHours THEN h - DurationWrapHours ELSE h

\* jwt.SigningMethodHMAC: the methods of the HMAC family
SigningMethodHMAC == {"HS256", "HS384", "HS512"}

\* GenerateToken putting the subject only into the claims, not the role
GenerateToken_SubjectOnly(ju, userID, role) ==
    Token(TRUE, "HS256", ju.secretKey, HoursDuration(ju.expirationHours) <= 0,
          userID, "")

\* JWTUtil.GenerateToken: exp is the time of the call plus the duration, so
\* the token is past its exp from the start when the duration is not positive
GenerateToken(ju, userID, role) ==
    Token(TRUE, "HS256", ju.secretKey, HoursDuration(ju.expirationHours) <= 0,
          userID, role)

\* ValidateToken that does not look at exp
ValidateToken_IgnoresExp(ju, tokenString) ==
    IF ~tokenString.segments
    THEN [err |-> "failed to parse token", is |-> "token is malformed", claims |-> Nil]
    ELSE IF tokenString.alg \notin SigningMethodHMAC
    THEN [err |-> "failed to parse token", is |-> "unexpected signing method",
          claims |-> Nil]
    ELSE IF tokenString.key # ju.secretKey
    THEN [err |-> "failed to parse token", is |-> "signature is invalid", claims |-> Nil]
    ELSE [err |-> NoErr, is |-> NoErr,
          claims |-> Ptr([UserID |-> tokenString.user_id, Role |-> tokenString.role])]

\* JWTUtil.ValidateToken: [err, is, claims].  jwt.ParseWithClaims splits the
\* string, asks the key function for the key, verifies the signature and
\* then validates the claims; is names the error the returned error wraps
ValidateToken(ju, tokenString) ==
    IF ~tokenString.segments
    THEN [err |-> "failed to parse token", is |-> "token is malformed", claims |-> Nil]
    ELSE IF tokenString.alg \notin SigningMethodHMAC
    THEN [err |-> "failed to parse token", is |-> "unexpected signing method",
          claims |-> Nil]
    ELSE IF tokenString.key # ju.secretKey
    THEN [err |-> "failed to parse token", is |-> "signature is invalid", claims |-> Nil]
    ELSE IF tokenString.expired
    THEN [err |-> "failed to parse token", is |-> "token is expired", claims |-> Nil]
    ELSE [err |-> NoErr, is |-> NoErr,
          claims |-> Ptr([UserID |-> tokenString.user_id, Role |-> tokenString.role])]

\* the JWTUtil of the server: JWT_SECRET_KEY and the default of
\* JWT_EXPIRATION_HOURS
jwtUtil == NewJWTUtil(SecretKey, 24)

\* the value of the Authorization header as strings.Split(authHeader, " ")
\* sees it: the number of parts (0 for the empty string), the first part and
\* the second
AuthHeader(parts, scheme, token) == [parts |-> parts, scheme |-> scheme, token |-> token]

\* JWTAuthMiddleware: the status it aborts with or 200 for c.Next(), and the
\* keys it sets
JWTAuthMiddleware(authHeader) ==
    IF authHeader.parts = 0
    THEN [status |-> 401, err |-> "Authorization header required", keys |-> Nil]
    ELSE IF authHeader.parts # 2 \/ ToLower(authHeader.scheme) # "bearer"
    THEN [status |-> 401, err |-> "Invalid authorization header format", keys |-> Nil]
    ELSE IF ValidateToken(jwtUtil, authHeader.token).err # NoErr
    THEN [status |-> 401, err |-> "Invalid or expired token", keys |-> Nil]
    ELSE [status |-> 200, err |-> NoErr,
          keys |-> Ptr([authUser |-> Deref(ValidateToken(jwtUtil, authHeader.token).claims).UserID,
                        authRole |-> Deref(ValidateToken(jwtUtil, authHeader.token).claims).Role])]

\* RoleMiddleware(allowedRoles...): JWTClaims.Role is a string, so the type
\* assertion on the key holds whenever the key is set
RoleMiddleware(allowedRoles, keys) ==
    IF IsNil(keys)
    THEN [status |-> 403, err |-> "Role not found in token, ensure JWT middleware runs first"]
    ELSE IF Deref(keys).authRole \notin allowedRoles
    THEN [status |-> 403, err |-> "You do not have permission to access this resource"]
    ELSE [status |-> 200, err |-> NoErr]

\* the admin group with the middleware of the user routes
AdminMiddleware_AllowsUsers(keys) == RoleMiddleware({RoleUser, RoleAdmin}, keys)

AdminMiddleware(keys) == RoleMiddleware({RoleAdmin}, keys)

\* a request arrives at a route of adminRoutes: authMW, then adminMW, then
\* the handler is next
AdminRoute(handler, authHeader) ==
    /\ Idle
    /\ ctx = NoContext
    /\ IF JWTAuthMiddleware(authHeader).status # 200
       THEN /\ resp' = [op |-> "JWTAuthMiddleware", handler |-> handler,
                        header |-> authHeader,
                        status |-> JWTAuthMiddleware(authHeader).status,
                        err |-> JWTAuthMiddleware(authHeader).err]
            /\ UNCHANGED ctx
       ELSE IF AdminMiddleware(JWTAuthMiddleware(authHeader).keys).status # 200
       THEN /\ resp' = [op |-> "RoleMiddleware", handler |-> handler,
                        header |-> authHeader,
                        status |-> AdminMiddleware(JWTAuthMiddleware(authHeader).keys).status,
                        err |-> AdminMiddleware(JWTAuthMiddleware(authHeader).keys).err]
            /\ UNCHANGED ctx
       ELSE /\ ctx' = [handler |-> handler, header |-> authHeader,
                       keys |-> JWTAuthMiddleware(authHeader).keys]
            /\ UNCHANGED resp
    /\ UNCHANGED <<users, txns, nextID, agg, calls, files, db>>

\* the response is written to the client
Respond ==
    /\ ~Idle
    /\ resp' = NoResponse
    /\ ctx' = NoContext
    /\ UNCHANGED <<users, txns, nextID, agg, calls, files, db>>

(***************************************************************************)
(* The values requests are made of.                                        *)
(***************************************************************************)
\* the registered users: two with role user, one administrator
InitialUsers ==
    { [id |-> 1, phone |-> "+998900000001", role |-> RoleUser],
      [id |-> 2, phone |-> "+998900000002", role |-> RoleUser],
      [id |-> 3, phone |-> "+998900000003", role |-> RoleAdmin] }

Owners == {1, 2}
Types == {TransactionTypeIncome, TransactionTypeExpense}
Noon(day) == Date(day, 12, 0, 0, 0)

NoAgg == [pc |-> "idle"]

\* maxRetries := 5
maxRetries == 5

\* the condition of the loop of ConnectDB, tested once more than the loop asks
LoopContinues_OneMore(i) == i <= maxRetries

\* the condition of the loop of ConnectDB
LoopContinues(i) == i < maxRetries

\* ConnectDB has returned the pool of its first attempt: main goes on to
\* AutoMigrate and to serving requests only then
Connected == [pc |-> "returned", i |-> 0, pool |-> Ptr(1), err |-> NoErr, log |-> <<NoErr>>]

Init ==
    /\ users = InitialUsers
    /\ txns = <<>>
    /\ nextID = 1
    /\ resp = NoResponse
    /\ agg = NoAgg
    /\ calls = {}
    /\ files = <<>>
    /\ ctx = NoContext
    /\ db = Connected

(***************************************************************************)
(* Specification Spec: the ledger under create, update and delete          *)
(* requests, and the admin statistics over it.                             *)
(***************************************************************************)
\* what is recorded: 1000 for food on 2024-01-05, 5000 as salary on 2024-01-10,
\* each as income or as expense
StatsEntries == {<<"food", 1000, Noon(1)>>, <<"salary", 5000, Noon(2)>>}

StatsCreateRequests ==
    {CreateTransactionRequest(e[2], ty, e[1], Nil, e[3]) :
        e \in StatsEntries, ty \in Types}

\* an update changes the type, or the entry, or both, or nothing
StatsUpdateRequests ==
    {UpdateTransactionRequest(e[2], ty, e[1], Nil, e[3]) :
        e \in {<<Nil, Nil, Nil>>, <<Ptr("salary"), Ptr(5000), Ptr(Noon(2))>>},
        ty \in {Nil, Ptr("income"), Ptr("expense")}}

\* a query string of the admin routes
Query(userID, type, category, start, end) ==
    [user_id |-> userID, type |-> type, category |-> category,
     start_date |-> start, end_date |-> end]

\* the query strings of GET /admin/stats: the parameters combined (with no
\* date, from a date, to a date), an empty range, a type outside the enum, and
\* the three malformed ones
StatsQueries ==
    {Query(u, ty, c, d[1], d[2]) :
        u \in {"", "2"}, ty \in {"", "income", "expense"}, c \in {"", "food"},
        d \in {<<"", "">>, <<"2024-01-10", "">>, <<"", "2024-01-05">>}}
    \cup { Query("", "", "", "2024-01-10", "2024-01-05"),
           Query("", "other", "", "", ""),
           Query("2", "other", "food", "", ""),
           Query("abc", "", "", "", ""),
           Query("", "", "", "05.01.2024", ""),
           Query("", "", "", "", "2024-13-45") }

Next ==
    \/ \E u \in Owners, req \in StatsCreateRequests : CreateTransaction(u, req, Noon(1))
    \/ \E u \in Owners, id \in 1..MaxTx, req \in StatsUpdateRequests :
          UpdateTransaction(u, id, req, Noon(1))
    \/ \E u \in Owners, id \in 1..MaxTx : DeleteTransaction(u, RoleUser, id)
    \/ \E q \in StatsQueries : GetStatisticsAdmin(q)
    \/ Respond

Spec == Init /\ [][Next]_vars

(***************************************************************************)
(* GetAggregatedStats statement by statement.  The call holds no lock and  *)
(* no database transaction, so requests that write may be handled between  *)
(* two of its statements.  agg is the call in flight: its filter and the   *)
(* statistics object filled so far.                                        *)
(***************************************************************************)
\* GET /admin/stats arrives; the filter is built and the totals statement runs
StatsTotals(q) ==
    /\ agg.pc = "idle"
    /\ AdminFilters(q).status = 200
    /\ LET F == Deref(AdminFilters(q).filters)
           r == SumQuery(F)
       IN agg' = IF r.err # NoErr
                 THEN [pc |-> "done", filters |-> F, err |-> r.err, stats |-> Nil]
                 ELSE [pc |-> "income", filters |-> F, err |-> NoErr,
                       stats |-> Ptr([EmptyStats EXCEPT
                                        !.TotalIncome = r.TotalIncome,
                                        !.TotalExpenses = r.TotalExpenses,
                                        !.Balance = r.Balance])]
    /\ UNCHANGED <<users, txns, nextID, resp, calls, files, ctx, db>>

\* the income grouping runs
StatsCategoryIncome ==
    /\ agg.pc = "income"
    /\ LET r == CategoryQuery(agg.filters, TransactionTypeIncome)
       IN agg' = IF r.err # NoErr
                 THEN [agg EXCEPT !.pc = "done", !.err = r.err, !.stats = Nil]
                 ELSE [agg EXCEPT !.pc = "expense",
                                  !.stats = Ptr([Deref(@) EXCEPT !.ByCategoryIncome = r.map])]
    /\ UNCHANGED <<users, txns, nextID, resp, calls, files, ctx, db>>

\* the expense grouping runs
StatsCategoryExpense ==
    /\ agg.pc = "expense"
    /\ LET r == CategoryQuery(agg.filters, TransactionTypeExpense)
       IN agg' = IF r.err # NoErr
                 THEN [agg EXCEPT !.pc = "done", !.err = r.err, !.stats = Nil]
                 ELSE [agg EXCEPT !.pc = "users",
                                  !.stats = Ptr([Deref(@) EXCEPT !.ByCategoryExpense = r.map])]
    /\ UNCHANGED <<users, txns, nextID, resp, calls, files, ctx, db>>

\* the per-owner statement runs and GetAggregatedStats returns
StatsByUser ==
    /\ agg.pc = "users"
    /\ LET r == UserSpendingQuery(agg.filters)
       IN agg' = IF r.err # NoErr
                 THEN [agg EXCEPT !.pc = "done", !.err = r.err, !.stats = Nil]
                 ELSE [agg EXCEPT !.pc = "done",
                                  !.stats = Ptr([Deref(@) EXCEPT !.ByUserSpending = r.map])]
    /\ UNCHANGED <<users, txns, nextID, resp, calls, files, ctx, db>>

\* a statement of GetAggregatedStats fails (the query, a Scan, rows.Err()):
\* return nil, fmt.Errorf(...), whatever stats holds by then
StatementFailed_KeepsStats(a, err) == [a EXCEPT !.pc = "done", !.err = err]

StatementFailed(a, err) == [a EXCEPT !.pc = "done", !.err = err, !.stats = Nil]

\* the errors of the statements, by the statement that returns them
TotalsErrors == {"failed to get total income/expenses"}
IncomeErrors ==
    {"failed to get income by category", "failed to scan income by category",
     "error iterating income by category"}
ExpenseErrors ==
    {"failed to get expense by category", "failed to scan expense by category",
     "error iterating expense by category"}
UserErrors ==
    {"failed to get stats by user", "failed to scan user stats", "error iterating user stats"}

\* GET /admin/stats arrives and the totals statement fails
StatsTotalsFails(q, err) ==
    /\ agg.pc = "idle"
    /\ AdminFilters(q).status = 200
    /\ agg' = StatementFailed([pc |-> "totals", filters |-> Deref(AdminFilters(q).filters),
                               err |-> NoErr, stats |-> Ptr(EmptyStats)], err)
    /\ UNCHANGED <<users, txns, nextID, resp, calls, files, ctx, db>>

\* the income grouping is queried and fails
StatsCategoryIncomeFails(err) ==
    /\ agg.pc = "income"
    /\ IF IsNil(agg.filters.Type) THEN TRUE
       ELSE Deref(agg.filters.Type) = TransactionTypeIncome
    /\ agg' = StatementFailed(agg, err)
    /\ UNCHANGED <<users, txns, nextID, resp, calls, files, ctx, db>>

\* the expense grouping is queried and fails
StatsCategoryExpenseFails(err) ==
    /\ agg.pc = "expense"
    /\ IF IsNil(agg.filters.Type) THEN TRUE
       ELSE Deref(agg.filters.Type) = TransactionTypeExpense
    /\ agg' = StatementFailed(agg, err)
    /\ UNCHANGED <<users, txns, nextID, resp, calls, files, ctx, db>>

\* the per-owner statement fails
StatsByUserFails(err) ==
    /\ agg.pc = "users"
    /\ agg' = StatementFailed(agg, err)
    /\ UNCHANGED <<users, txns, nextID, resp, calls, files, ctx, db>>

\* the statistics are written to the client
StatsRespond ==
    /\ agg.pc = "done"
    /\ agg' = NoAgg
    /\ UNCHANGED <<users, txns, nextID, resp, calls, files, ctx, db>>

(***************************************************************************)
(* Specification SpecConcurrent: GET /admin/stats running while            *)
(* transactions are created, updated and deleted.                          *)
(***************************************************************************)
ConcCreateRequests == {CreateTransactionRequest(1000, "income", "food", Nil, Noon(1))}

ConcUpdateRequests ==
    {UpdateTransactionRequest(Nil, ty, Nil, Nil, Nil) : ty \in {Ptr("income"), Ptr("expense")}}

ConcQueries == {Query("", "", "", "", ""), Query("", "income", "", "", "")}

NextConcurrent ==
    \/ \E req \in ConcCreateRequests : CreateTransaction(1, req, Noon(1))
    \/ \E id \in 1..MaxTx, req \in ConcUpdateRequests : UpdateTransaction(1, id, req, Noon(1))
    \/ \E id \in 1..MaxTx : DeleteTransaction(1, RoleUser, id)
    \/ Respond
    \/ \E q \in ConcQueries : StatsTotals(q)
    \/ StatsCategoryIncome
    \/ StatsCategoryExpense
    \/ StatsByUser
    \/ StatsRespond

SpecConcurrent == Init /\ [][NextConcurrent]_vars

(***************************************************************************)
(* Specification SpecListing: the ledger filled by create requests, and    *)
(* the two listings over it.                                               *)
(***************************************************************************)
\* what is recorded: an expense at the first instant of 2024-01-05, an income
\* at its last instant, an expense at the first instant of 2024-01-10
ListingEntries ==
    { <<"expense", "food", 1000, Date(1, 0, 0, 0, 0)>>,
      <<"income", "salary", 5000, Date(1, 23, 59, 59, 999999999)>>,
      <<"expense", "salary", 700, Date(2, 0, 0, 0, 0)>> }

ListingCreateRequests ==
    {CreateTransactionRequest(e[3], e[1], e[2], Nil, e[4]) : e \in ListingEntries}

\* the readings of NOW() when rows are created; the clock does not go back
Clock == {Noon(1), Noon(2)}
ClockAt(now) == \A t \in Rows : t.created_at <= now

\* a query string of GET /transactions
UserQuery(type, category, date) == [type |-> type, category |-> category, date |-> date]

ListingUserQueries ==
    {UserQuery(ty, c, d) :
        ty \in {"", "expense"}, c \in {"", "salary"}, d \in {"", "2024-01-05"}}
    \cup {UserQuery("", "", "2024-1-5")}

\* filters handed to transactionService.GetUserTransactions with one boundary:
\* an instant within the day, midnight, and midnight and a half second
ListingUserFilters ==
    {UserTransactionFilters(Nil, Nil, d[1], d[2]) :
        d \in { <<Ptr(Noon(1)), Nil>>, <<Nil, Ptr(Noon(1))>>,
                <<Ptr(Date(2, 0, 0, 0, 0)), Nil>>, <<Nil, Ptr(Date(1, 0, 0, 0, 0))>>,
                <<Ptr(Date(1, 0, 0, 0, 500000000)), Nil>> }}

\* the query strings of GET /admin/transactions
ListingQueries ==
    {Query(u, ty, c, d[1], d[2]) :
        u \in {"", "1"}, ty \in {"", "expense"}, c \in {"", "salary"},
        d \in {<<"", "">>, <<"2024-01-10", "">>, <<"", "2024-01-05">>,
               <<"2024-01-05", "2024-01-05">>}}
    \cup {Query("x", "", "", "", "")}

NextListing ==
    \/ \E u \in Owners, req \in ListingCreateRequests, now \in Clock :
          ClockAt(now) /\ CreateTransaction(u, req, now)
    \/ \E u \in Owners, q \in ListingUserQueries : GetMyTransactions(u, q)
    \/ \E u \in Owners, F \in ListingUserFilters : GetUserTransactions(u, F)
    \/ \E q \in ListingQueries : GetAllTransactionsAdmin(q)
    \/ Respond

SpecListing == Init /\ [][NextListing]_vars

(***************************************************************************)
(* Specification SpecDates: the four filtered operations asked for one     *)
(* day, for the days from a day on, and for everything.                    *)
(***************************************************************************)
DatesQueries ==
    {Query(u, "", "", d[1], d[2]) :
        u \in {"", "1"},
        d \in {<<"", "">>, <<"2024-01-05", "">>, <<"2024-01-05", "2024-01-05">>,
               <<"2024-01-10", "">>}}
    \cup {Query("", "", "", "", "10.01.2024")}

DatesUserFilters ==
    {UserTransactionFilters(Nil, Nil, d[1], d[2]) :
        d \in { <<Ptr(Date(1, 0, 0, 0, 0)), Nil>>,
                <<Ptr(Date(1, 0, 0, 0, 0)), Ptr(Date(1, 23, 59, 59, 999999999))>>,
                <<Ptr(Date(2, 0, 0, 0, 0)), Nil>>,
                <<Ptr(Noon(1)), Nil>> }}

NextDates ==
    \/ \E u \in Owners, req \in ListingCreateRequests :
          CreateTransaction(u, req, Noon(2))
    \/ \E u \in Owners, F \in DatesUserFilters : GetUserTransactions(u, F)
    \/ \E q \in DatesQueries : GetAllTransactionsAdmin(q)
    \/ \E q \in DatesQueries : GetStatisticsAdmin(q)
    \/ \E q \in DatesQueries : ExportTransactionsCSVAdmin(q)
    \/ Respond

SpecDates == Init /\ [][NextDates]_vars

(***************************************************************************)
(* Specification SpecAccess: single transactions read, deleted and their   *)
(* receipts asked for, by their owner, by another user and by the          *)
(* administrator.                                                          *)
(***************************************************************************)
\* the callers as the token middleware identifies them: <<user id, role>>
Callers == {<<u.id, u.role>> : u \in InitialUsers}

AccessCreateRequests == {CreateTransactionRequest(1000, "expense", "food", Nil, Noon(1))}

NextAccess ==
    \/ \E u \in Owners, req \in AccessCreateRequests : CreateTransaction(u, req, Noon(1))
    \/ \E c \in Callers, id \in 1..MaxTx : GetTransactionByID(c[1], c[2], id)
    \/ \E c \in Callers, id \in 1..MaxTx : DeleteTransaction(c[1], c[2], id)
    \/ \E c \in Callers, id \in 1..MaxTx : GetReceipt(c[1], c[2], id)
    \/ Respond

SpecAccess == Init /\ [][NextAccess]_vars

(***************************************************************************)
(* Specification SpecOwnership: every operation on the ledger asked for by *)
(* the owner, by another user and by the administrator, one call at a      *)
(* time.                                                                   *)
(***************************************************************************)
\* an update of every field a request can carry
OwnershipUpdateRequests ==
    {UpdateTransactionRequest(Ptr(2000), Ptr("income"), Ptr("salary"), Ptr("bonus"),
                              Ptr(Noon(2)))}

\* a receipt, a file of a format that is not allowed, a file too large
OwnershipFiles ==
    { FileHeader("a.pdf", 1024, "A"),
      FileHeader("c.exe", 1024, "X"),
      FileHeader("b.PNG", MaxFileSize + 1, "B") }

OwnershipUserFilters ==
    {UserTransactionFilters(ty, Nil, Nil, Nil) : ty \in {Nil, Ptr("income")}}

OwnershipQueries == {Query("", "", "", "", "")}

\* user 1 keeps a ledger; user 2 and the administrator have none
OwnershipOwners == {1}

\* NOW() at the creation of the n-th row: the clock moves between two creations
CreationTime(n) == TicksPerDay + (n - 1)

NextOwnership ==
    \/ \E u \in OwnershipOwners, req \in AccessCreateRequests :
          CreateTransaction(u, req, CreationTime(nextID))
    \/ \E c \in Callers, id \in 1..MaxTx : GetTransactionByID(c[1], c[2], id)
    \/ \E c \in Callers, id \in 1..MaxTx, req \in OwnershipUpdateRequests :
          calls = {} /\ UpdateLookup(c[1], id, req, Noon(2))
    \/ \E call \in calls : UpdateApply(call, Noon(2))
    \/ \E c \in Callers, id \in 1..MaxTx : DeleteTransaction(c[1], c[2], id)
    \/ \E c \in Callers, id \in 1..MaxTx, fh \in OwnershipFiles :
          calls = {} /\ UploadReceiptSave(c[1], id, fh)
    \/ \E call \in calls, storeFails \in BOOLEAN :
          UploadReceiptUpdatePath(call, storeFails, Noon(2))
    \/ \E c \in Callers, id \in 1..MaxTx : GetReceipt(c[1], c[2], id)
    \/ \E u \in Owners, F \in OwnershipUserFilters : GetUserTransactions(u, F)
    \/ \E q \in OwnershipQueries : GetAllTransactionsAdmin(q)
    \/ \E q \in OwnershipQueries : GetStatisticsAdmin(q)
    \/ \E q \in OwnershipQueries : ExportTransactionsCSVAdmin(q)
    \/ Respond

SpecOwnership == Init /\ [][NextOwnership]_vars

(***************************************************************************)
(* Specification SpecRoutes: requests to the three routes under /admin     *)
(* with every kind of Authorization header.                                *)
(***************************************************************************)
RoutesTokens ==
    { GenerateToken(jwtUtil, 3, RoleAdmin),
      GenerateToken(jwtUtil, 1, RoleUser),
      GenerateToken(jwtUtil, 1, ""),
      GenerateToken(jwtUtil, 1, "Admin"),
      Token(FALSE, "", "", FALSE, 0, ""),
      Token(TRUE, "none", "", FALSE, 3, RoleAdmin),
      Token(TRUE, "RS256", SecretKey, FALSE, 3, RoleAdmin),
      Token(TRUE, "HS256", "guess", FALSE, 3, RoleAdmin),
      Token(TRUE, "HS256", SecretKey, TRUE, 3, RoleAdmin) }

RoutesHeaders ==
    {AuthHeader(0, "", Token(FALSE, "", "", FALSE, 0, ""))}
    \cup {AuthHeader(2, "Bearer", tok) : tok \in RoutesTokens}
    \cup {AuthHeader(n, s, GenerateToken(jwtUtil, 3, RoleAdmin)) :
             n \in {1, 2, 3}, s \in {"Bearer", "bearer", "Basic", ""}}

AdminHandlers == {"GetAllTransactionsAdmin", "GetStatisticsAdmin", "ExportTransactionsCSVAdmin"}

NextRoutes ==
    \/ \E u \in OwnershipOwners, req \in AccessCreateRequests :
          ctx = NoContext /\ CreateTransaction(u, req, CreationTime(nextID))
    \/ \E h \in AdminHandlers, a \in RoutesHeaders : AdminRoute(h, a)
    \/ \E q \in OwnershipQueries :
          ctx.handler = "GetAllTransactionsAdmin" /\ GetAllTransactionsAdmin(q)
    \/ \E q \in OwnershipQueries :
          ctx.handler = "GetStatisticsAdmin" /\ GetStatisticsAdmin(q)
    \/ \E q \in OwnershipQueries :
          ctx.handler = "ExportTransactionsCSVAdmin" /\ ExportTransactionsCSVAdmin(q)
    \/ Respond

SpecRoutes == Init /\ [][NextRoutes]_vars

(***************************************************************************)
(* Specification SpecRaces: updates in two steps, the lookup in the        *)
(* service and the statement in the repository, with other updates and     *)
(* deletions between them.                                                 *)
(***************************************************************************)
\* requests the server works on at once
MaxCalls == 2

\* an update of the amount alone and one of the category alone
RaceUpdateRequests ==
    { UpdateTransactionRequest(Ptr(2000), Nil, Nil, Nil, Nil),
      UpdateTransactionRequest(Nil, Nil, Ptr("salary"), Nil, Nil) }

NextRaces ==
    \/ \E u \in OwnershipOwners, req \in AccessCreateRequests :
          CreateTransaction(u, req, CreationTime(nextID))
    \/ \E u \in Owners, id \in 1..MaxTx, req \in RaceUpdateRequests :
          Cardinality(calls) < MaxCalls /\ UpdateLookup(u, id, req, Noon(2))
    \/ \E call \in calls : UpdateApply(call, Noon(2))
    \/ \E u \in OwnershipOwners, id \in 1..MaxTx : DeleteTransaction(u, RoleUser, id)
    \/ Respond

SpecRaces == Init /\ [][NextRaces]_vars

(***************************************************************************)
(* Specification SpecFailures: GET /admin/stats over a store whose         *)
(* statements may fail.                                                    *)
(***************************************************************************)
\* queries that match everything, one type, one category, one user, nothing
FailuresQueries ==
    { Query("", "", "", "", ""),
      Query("", "income", "", "", ""),
      Query("", "expense", "food", "", ""),
      Query("2", "", "", "", ""),
      Query("", "", "rent", "", ""),
      Query("", "other", "", "", "") }

NextFailures ==
    \/ \E u \in Owners, req \in StatsCreateRequests :
          agg.pc = "idle" /\ CreateTransaction(u, req, Noon(1))
    \/ Respond
    \/ \E q \in FailuresQueries : StatsTotals(q)
    \/ \E q \in FailuresQueries, err \in TotalsErrors : StatsTotalsFails(q, err)
    \/ StatsCategoryIncome
    \/ \E err \in IncomeErrors : StatsCategoryIncomeFails(err)
    \/ StatsCategoryExpense
    \/ \E err \in ExpenseErrors : StatsCategoryExpenseFails(err)
    \/ StatsByUser
    \/ \E err \in UserErrors : StatsByUserFails(err)
    \/ StatsRespond

SpecFailures == Init /\ [][NextFailures]_vars

(***************************************************************************)
(* Specification SpecExport: the export of a ledger whose categories and   *)
(* descriptions hold the characters a CSV reader gives a meaning to.       *)
(***************************************************************************)
\* category, description, amount
ExportEntries ==
    { <<"food", Nil, 1000>>,
      <<"a,b", Nil, 5000>>,
      <<"say \"hi\"", Ptr("x,\"y\""), 7>>,
      <<"two\nlines", Nil, 120>>,
      <<"cr\r\nlf", Ptr(" lead"), 1000>>,
      <<"\\.", Ptr("two\nlines"), 10>> }

ExportCreateRequests ==
    {CreateTransactionRequest(e[3], "expense", e[1], e[2], Noon(1)) : e \in ExportEntries}

ExportQueries == {Query("", "", "", "", ""), Query("", "", "a,b", "", ""),
                  Query("2", "", "", "", "")}

NextExport ==
    \/ \E req \in ExportCreateRequests : CreateTransaction(1, req, CreationTime(nextID))
    \/ \E q \in ExportQueries : ExportTransactionsCSVAdmin(q)
    \/ Respond

SpecExport == Init /\ [][NextExport]_vars

(***************************************************************************)
(* What the claims speak of.                                               *)
(***************************************************************************)
\* transaction t satisfies every constraint present in the admin filter F
Satisfies(t, F) ==
    /\ IsNil(F.UserID) \/ t.user_id = Deref(F.UserID)
    /\ IsNil(F.Type) \/ t.type = Deref(F.Type)
    /\ IsNil(F.Category) \/ t.category = Deref(F.Category)
    /\ IsNil(F.StartDate) \/ t.transaction_date >= Deref(F.StartDate)
    /\ IsNil(F.EndDate) \/ t.transaction_date <= Deref(F.EndDate)

\* the stored transactions that satisfy F
Subset(F) == {t \in Rows : Satisfies(t, F)}

OfType(S, type) == {t \in S : t.type = type}

\* the sum of the values of a map to numbers
RECURSIVE SumValues(_)
SumValues(m) ==
    IF DOMAIN m = {} THEN 0
    ELSE LET k == CHOOSE x \in DOMAIN m : TRUE
         IN m[k] + SumValues([x \in DOMAIN m \ {k} |-> m[x]])

\* the sum of one field over the entries of by_user_spending
RECURSIVE SumField(_, _)
SumField(m, field) ==
    IF DOMAIN m = {} THEN 0
    ELSE LET k == CHOOSE x \in DOMAIN m : TRUE
         IN m[k][field] + SumField([x \in DOMAIN m \ {k} |-> m[x]], field)

\* a statistics object has been returned for GET /admin/stats
StatsReturned == resp.op = "GetStatisticsAdmin" /\ resp.status # 400

\* C1: whatever is written between the statements of GetAggregatedStats, the
\* statistics object it holds and returns has balance = total_income -
\* total_expenses.
C1_BalanceIdentity ==
    agg.pc # "idle" /\ ~IsNil(agg.stats) =>
        Deref(agg.stats).Balance =
            Deref(agg.stats).TotalIncome - Deref(agg.stats).TotalExpenses

\* a returned object whose per-owner entries no longer add up to its totals
\* (a write came between the statements), with a balance that is not zero
C1_Witness ==
    /\ agg.pc = "done"
    /\ ~IsNil(agg.stats)
    /\ Deref(agg.stats).Balance # 0
    /\ \/ SumField(Deref(agg.stats).ByUserSpending, "TotalIncome")
              # Deref(agg.stats).TotalIncome
       \/ SumField(Deref(agg.stats).ByUserSpending, "TotalSpent")
              # Deref(agg.stats).TotalExpenses

\* C2: the totals of GetAggregatedStats are the sums of the amounts of exactly
\* the transactions that satisfy every constraint of the filter, by type; the
\* call succeeds, with zero totals when nothing matches.
C2_TotalsAreSubsetSums ==
    StatsReturned =>
        /\ resp.err = NoErr
        /\ Deref(resp.stats).TotalIncome =
              SumAmount(OfType(Subset(resp.filters), "income"))
        /\ Deref(resp.stats).TotalExpenses =
              SumAmount(OfType(Subset(resp.filters), "expense"))

\* both totals are positive and the filter leaves a stored transaction out
C2_Witness ==
    /\ StatsReturned
    /\ resp.err = NoErr
    /\ Deref(resp.stats).TotalIncome > 0
    /\ Deref(resp.stats).TotalExpenses > 0
    /\ Subset(resp.filters) # Rows

\* C3: with no type in the filter or type income, the values of
\* by_category_income add up to total_income; the same for expense.
C3_CategorySumsEqualTotals ==
    StatsReturned /\ resp.err = NoErr =>
        LET F == resp.filters
            st == Deref(resp.stats)
        IN /\ (IsNil(F.Type) \/ Deref(F.Type) = "income")
                => SumValues(st.ByCategoryIncome) = st.TotalIncome
           /\ (IsNil(F.Type) \/ Deref(F.Type) = "expense")
                => SumValues(st.ByCategoryExpense) = st.TotalExpenses

\* no type in the filter, two income categories and some expense
C3_Witness ==
    /\ StatsReturned
    /\ resp.err = NoErr
    /\ IsNil(resp.filters.Type)
    /\ Cardinality(DOMAIN Deref(resp.stats).ByCategoryIncome) = 2
    /\ Deref(resp.stats).TotalExpenses > 0

\* C4: the per-owner entries add up to the totals, and an owner has an entry
\* only if one of the owner's transactions satisfies the filter.
C4_UserStatsAddUp ==
    StatsReturned /\ resp.err = NoErr =>
        LET F == resp.filters
            st == Deref(resp.stats)
        IN /\ SumField(st.ByUserSpending, "TotalSpent") = st.TotalExpenses
           /\ SumField(st.ByUserSpending, "TotalIncome") = st.TotalIncome
           /\ \A uid \in DOMAIN st.ByUserSpending :
                \E t \in Subset(F) : t.user_id = uid

\* two owners have entries while a third transaction's owner filter or other
\* constraint leaves a transaction out
C4_Witness ==
    /\ StatsReturned
    /\ resp.err = NoErr
    /\ Cardinality(DOMAIN Deref(resp.stats).ByUserSpending) = 2
    /\ Deref(resp.stats).TotalExpenses > 0
    /\ Deref(resp.stats).TotalIncome > 0

\* the grouping by category of the transactions of S
GroupSums(S) ==
    [c \in {t.category : t \in S} |-> SumAmount({t \in S : t.category = c})]

\* C5: a category grouping is computed when the filter has no type or has the
\* grouping's type, over the filter's subset restricted to that type; the
\* other grouping of a typed filter is the empty map.
C5_GroupingPolicy ==
    StatsReturned /\ resp.err = NoErr =>
        LET F == resp.filters
            st == Deref(resp.stats)
        IN /\ (IsNil(F.Type) \/ Deref(F.Type) = "income")
                => st.ByCategoryIncome = GroupSums(OfType(Subset(F), "income"))
           /\ (IsNil(F.Type) \/ Deref(F.Type) = "expense")
                => st.ByCategoryExpense = GroupSums(OfType(Subset(F), "expense"))
           /\ (~IsNil(F.Type) /\ Deref(F.Type) = "income")
                => st.ByCategoryExpense = <<>>
           /\ (~IsNil(F.Type) /\ Deref(F.Type) = "expense")
                => st.ByCategoryIncome = <<>>

\* type = income in the filter, an expense stored in a category that also has
\* income: the expense grouping is empty, the income grouping is not
C5_Witness ==
    /\ StatsReturned
    /\ resp.err = NoErr
    /\ ~IsNil(resp.filters.Type)
    /\ Deref(resp.filters.Type) = "income"
    /\ DOMAIN Deref(resp.stats).ByCategoryIncome # {}
    /\ \E t \in Rows : /\ t.type = "expense"
                       /\ t.category \in DOMAIN Deref(resp.stats).ByCategoryIncome

\* C7: over an unchanged store the statistics and the listing filter the same
\* subset: the transaction counts add up to the number of rows of FindAll, and
\* the two totals to the sum of their amounts.
C7_StatsMatchListing ==
    StatsReturned /\ resp.err = NoErr =>
        LET F == resp.filters
            st == Deref(resp.stats)
            listing == FindAll(F)
        IN /\ listing.err = NoErr
           /\ SumField(st.ByUserSpending, "TransactionCount") = Cardinality(listing.set)
           /\ st.TotalIncome + st.TotalExpenses = SumAmount(listing.set)

\* the listing has two rows and leaves a stored transaction out
C7_Witness ==
    /\ StatsReturned
    /\ resp.err = NoErr
    /\ Cardinality(FindAll(resp.filters).set) = 2
    /\ SumField(Deref(resp.stats).ByUserSpending, "TransactionCount") = 2
    /\ \E t \in Rows : ~Satisfies(t, resp.filters)

(***************************************************************************)
(* The listings.                                                           *)
(***************************************************************************)
\* transaction t of user userID satisfies every constraint present in the
\* user filter F
SatisfiesUser(t, userID, F) ==
    /\ t.user_id = userID
    /\ IsNil(F.Type) \/ t.type = Deref(F.Type)
    /\ IsNil(F.Category) \/ t.category = Deref(F.Category)
    /\ IsNil(F.StartDate) \/ t.transaction_date >= Deref(F.StartDate)
    /\ IsNil(F.EndDate) \/ t.transaction_date <= Deref(F.EndDate)

SubsetUser(userID, F) == {t \in Rows : SatisfiesUser(t, userID, F)}

Range(s) == {s[i] : i \in DOMAIN s}

\* a listing has been returned by FindAll, by FindByUser
AdminListed == resp.op = "GetAllTransactionsAdmin" /\ resp.status # 400
UserListed == resp.op = "GetUserTransactions" /\ resp.status # 400

\* C6: the listing of FindAll holds exactly the stored transactions that
\* satisfy every constraint present in its filter, bounds inclusive, each
\* once; that of FindByUser exactly those that also belong to the user.
C6_ListingIsTheSubset ==
    /\ AdminListed =>
          /\ resp.err = NoErr
          /\ Range(resp.rows) = Subset(resp.filters)
          /\ Len(resp.rows) = Cardinality(Subset(resp.filters))
    /\ UserListed =>
          /\ resp.err = NoErr
          /\ Range(resp.rows) = SubsetUser(resp.userID, resp.filters)
          /\ Len(resp.rows) = Cardinality(SubsetUser(resp.userID, resp.filters))

\* an admin listing between two bounds that has a row dated exactly at each
\* bound and leaves a stored transaction out
C6_Witness ==
    /\ AdminListed
    /\ ~IsNil(resp.filters.StartDate)
    /\ ~IsNil(resp.filters.EndDate)
    /\ \E i \in DOMAIN resp.rows :
          resp.rows[i].transaction_date = Deref(resp.filters.StartDate)
    /\ \E i \in DOMAIN resp.rows :
          resp.rows[i].transaction_date = Deref(resp.filters.EndDate)
    /\ Range(resp.rows) # Rows

\* C8: in every listing, of two consecutive rows the first has the later
\* transaction date, or the same date and a creation timestamp not earlier.
C8_ListingOrder ==
    AdminListed \/ UserListed =>
        \A i \in 1..(Len(resp.rows) - 1) :
            LET a == resp.rows[i]
                b == resp.rows[i + 1]
            IN \/ a.transaction_date > b.transaction_date
               \/ /\ a.transaction_date = b.transaction_date
                  /\ a.created_at >= b.created_at

\* three rows listed against the order of their ids: the latest date first,
\* then two rows of one date, the one created later first
C8_Witness ==
    /\ UserListed
    /\ Len(resp.rows) = 3
    /\ resp.rows[1].transaction_date > resp.rows[2].transaction_date
    /\ resp.rows[2].transaction_date = resp.rows[3].transaction_date
    /\ resp.rows[2].created_at > resp.rows[3].created_at
    /\ resp.rows[2].id > resp.rows[3].id

(***************************************************************************)
(* A lone start boundary.                                                  *)
(***************************************************************************)
\* the last instant of the day of instant t
EndOfDay(t) == Date(DayOf(t), 23, 59, 59, 999999999)

\* the admin query q asked for the one day of its start_date
OneDay(q) == Deref(AdminFilters([q EXCEPT !.end_date = q.start_date]).filters)

\* an admin operation has answered a query with a start_date and no end_date
LoneStartDate(op) ==
    /\ resp.op = op
    /\ resp.status = 200
    /\ resp.q.start_date # ""
    /\ resp.q.end_date = ""

\* GetUserTransactions has answered a filter with a start at midnight and no end
LoneStart ==
    /\ UserListed
    /\ resp.status = 200
    /\ ~IsNil(resp.raw.StartDate)
    /\ Deref(resp.raw.StartDate) = Date(DayOf(Deref(resp.raw.StartDate)), 0, 0, 0, 0)
    /\ IsNil(resp.raw.EndDate)

\* the user listing treats a lone start at midnight of D as the day D
UserListingIsOneDay ==
    LoneStart =>
        /\ Range(resp.rows) =
              GetUserTransactionsService(resp.userID,
                  [resp.raw EXCEPT !.EndDate = Ptr(EndOfDay(Deref(resp.raw.StartDate)))]).set
        /\ \A t \in Range(resp.rows) :
              DayOf(t.transaction_date) = DayOf(Deref(resp.raw.StartDate))

AccessOps == {"GetTransactionByID", "DeleteTransaction", "GetReceipt"}

\* C10: when a caller who is not an administrator asks for, deletes or asks
\* for the receipt of a transaction, an id that no stored transaction has
\* gives ErrTransactionNotFound, and the id of another owner's transaction
\* gives ErrForbidden and leaves the store alone; the two are different
\* errors, and an absent id never gives ErrForbidden.
C10_NotFoundBeforeForbidden ==
    [][ (Idle /\ resp'.op \in AccessOps /\ resp'.userRole # RoleAdmin) =>
          /\ resp'.id \notin DOMAIN txns =>
                resp'.err = ErrTransactionNotFound /\ resp'.status = 404
          /\ resp'.id \in DOMAIN txns /\ txns[resp'.id].user_id # resp'.userID =>
                resp'.err = ErrForbidden /\ resp'.status = 403 /\ txns' = txns
          /\ ErrTransactionNotFound # ErrForbidden ]_vars

\* a user was refused the deletion of another owner's transaction while an
\* earlier id is no longer stored
C10_Witness ==
    /\ resp.op = "DeleteTransaction"
    /\ resp.userRole = RoleUser
    /\ resp.err = ErrForbidden
    /\ resp.id \in DOMAIN txns
    /\ txns[resp.id].user_id # resp.userID
    /\ \E id \in 1..(nextID - 1) : id \notin DOMAIN txns

(***************************************************************************)
(* Who may act on a transaction.                                           *)
(***************************************************************************)
\* the role of a registered user
RoleOf(userID) == (CHOOSE u \in users : u.id = userID).role

SingleOps ==
    {"GetTransactionByID", "UpdateTransaction", "DeleteTransaction", "UploadReceipt",
     "GetReceipt"}

\* a request on one transaction has been answered past the binding of its body
SingleAnswered == resp.op \in SingleOps /\ "userID" \in DOMAIN resp

\* C11 as stated: an administrator is never refused with ErrForbidden by an
\* operation on one transaction.
C11_AdminNeverForbidden ==
    SingleAnswered /\ RoleOf(resp.userID) = RoleAdmin => resp.err # ErrForbidden

\* C11: GetTransactionByID, DeleteTransaction and GetReceiptPath never refuse
\* an administrator with ErrForbidden; UpdateTransaction and UploadReceipt
\* refuse every caller who is not the owner of the stored transaction, an
\* administrator included, and refuse nobody else.
C11_AdminReadsAndDeletesOwnerEdits ==
    SingleAnswered =>
        /\ (resp.op \in {"GetTransactionByID", "DeleteTransaction", "GetReceipt"}
              /\ RoleOf(resp.userID) = RoleAdmin)
             => resp.err # ErrForbidden
        /\ resp.op \in {"UpdateTransaction", "UploadReceipt"} =>
             /\ (resp.id \in DOMAIN txns /\ txns[resp.id].user_id # resp.userID)
                  => resp.err = ErrForbidden
             /\ resp.err = ErrForbidden
                  => resp.id \in DOMAIN txns /\ txns[resp.id].user_id # resp.userID

\* the administrator has read a user's transaction whose update the
\* administrator could not make: its fields are as created
C11_Witness ==
    /\ resp.op = "GetTransactionByID"
    /\ resp.userRole = RoleAdmin
    /\ resp.err = NoErr
    /\ Deref(resp.row).user_id # resp.userID
    /\ Deref(resp.row).updated_at = Deref(resp.row).created_at

\* a request of a user without the administrator's role, on one transaction
\* that belongs to someone else, is answered in this step
RefusedRequest ==
    /\ resp = NoResponse
    /\ resp'.op \in SingleOps
    /\ "userID" \in DOMAIN resp'
    /\ RoleOf(resp'.userID) # RoleAdmin
    /\ resp'.id \in DOMAIN txns
    /\ txns[resp'.id].user_id # resp'.userID

\* C12: a caller without the administrator's role gets an error from every
\* operation on one transaction of another owner, and the step leaves the
\* store and the uploaded files as they were; no update or upload of such a
\* caller gets as far as the store; GetUserTransactions returns rows of the
\* caller only.
C12_OthersTransactionsAreClosed ==
    [][ /\ RefusedRequest =>
             /\ resp'.err \in {ErrForbidden}
             /\ txns' = txns
             /\ files' = files
             /\ calls' = calls
        /\ \A call \in calls' \ calls :
             txns[call.id].user_id = call.userID
        /\ resp'.op = "GetUserTransactions" =>
             \A i \in DOMAIN resp'.rows : resp'.rows[i].user_id = resp'.userID
      ]_vars

\* user 2 asked for the receipt of a transaction of user 1 that has one
C12_Witness ==
    /\ resp.op = "GetReceipt"
    /\ RoleOf(resp.userID) = RoleUser
    /\ resp.err = ErrForbidden
    /\ resp.id \in DOMAIN txns
    /\ ~IsNil(txns[resp.id].receipt_path)
    /\ txns[resp.id].user_id # resp.userID

(***************************************************************************)
(* Who reaches the handlers under /admin.                                  *)
(***************************************************************************)
\* "Bearer <token>", the scheme in any case as for HTTP authentication schemes
BearerForm(authHeader) ==
    authHeader.parts = 2 /\ authHeader.scheme \in {"Bearer", "bearer", "BEARER"}

TokenValidates(authHeader) == ValidateToken(jwtUtil, authHeader.token).err = NoErr

RoleClaim(authHeader) == authHeader.token.role

\* C13: an admin handler is about to run or has answered only for a request
\* whose Authorization header is Bearer <token> with a token that validates
\* and carries the role admin; a request whose header is missing or
\* malformed or whose token is invalid is answered 401, one with a valid
\* token of another role 403, and neither reaches the handler.
C13_AdminRoutesAreGuarded ==
    /\ (ctx # NoContext \/ resp.op \in AdminHandlers) =>
          /\ ctx.handler \in AdminHandlers
          /\ resp.op \in {"none", ctx.handler}
          /\ BearerForm(ctx.header)
          /\ TokenValidates(ctx.header)
          /\ RoleClaim(ctx.header) = RoleAdmin
    /\ resp.op \in {"JWTAuthMiddleware", "RoleMiddleware"} =>
          /\ ctx = NoContext
          /\ ~(BearerForm(resp.header) /\ TokenValidates(resp.header)) <=> resp.status = 401
          /\ (BearerForm(resp.header) /\ TokenValidates(resp.header)
                /\ RoleClaim(resp.header) # RoleAdmin) <=> resp.status = 403
          /\ resp.status \in {401, 403}

\* the export has answered a request that came with the administrator's token
C13_Witness ==
    /\ resp.op = "ExportTransactionsCSVAdmin"
    /\ resp.status = 200
    /\ ctx.header = AuthHeader(2, "Bearer", GenerateToken(jwtUtil, 3, RoleAdmin))
    /\ txns # <<>>

(***************************************************************************)
(* Updates that overlap with other requests.                               *)
(***************************************************************************)
\* the update the repository is asked to make in this step
Applied(call) == call \in calls /\ call \notin calls' /\ call.op = "UpdateTransaction"

\* the UPDATE of the call finds no row with its id and its user
ZeroRows(call) == ~(call.id \in DOMAIN txns /\ txns[call.id].user_id = call.userID)

\* C14 as stated: when the conditional update affects no row, the caller
\* of UpdateTransaction gets ErrTransactionNotFound or ErrForbidden.
C14_ZeroRowsIsNotFoundOrForbidden ==
    [][\A call \in calls :
          Applied(call) /\ ZeroRows(call) =>
              resp'.err \in {ErrTransactionNotFound, ErrForbidden}]_vars

\* an update whose row was deleted after the lookup has been answered 500
C14_Witness ==
    /\ resp.op = "UpdateTransaction"
    /\ resp.status = 500
    /\ resp.id \notin DOMAIN txns

\* C15 as stated: an update that succeeds leaves every field its request
\* does not carry at the value the store holds when the update is applied.
C15_AbsentFieldsKeepStoreValue ==
    [][\A call \in calls :
          Applied(call) /\ resp'.err = NoErr =>
              /\ IsNil(call.req.Amount) => txns'[call.id].amount = txns[call.id].amount
              /\ IsNil(call.req.Type) => txns'[call.id].type = txns[call.id].type
              /\ IsNil(call.req.Category) =>
                    txns'[call.id].category = txns[call.id].category
              /\ IsNil(call.req.Description) =>
                    txns'[call.id].description = txns[call.id].description
              /\ IsNil(call.req.TransactionDate) =>
                    txns'[call.id].transaction_date = txns[call.id].transaction_date
      ]_vars

\* two updates of the owner, one of the amount and one of the category, have
\* both been answered 200 and the row holds the category of one and the
\* amount from before the other
C15_Witness ==
    /\ resp.op = "UpdateTransaction"
    /\ resp.err = NoErr
    /\ calls = {}
    /\ txns[resp.id].category = "salary"
    /\ txns[resp.id].amount = 1000
    /\ txns[resp.id].updated_at = Noon(2)

(***************************************************************************)
(* Statistics over a store that may fail.                                  *)
(***************************************************************************)
\* C16: GetAggregatedStats returns an error exactly when it returns no
\* statistics object, and it does so whenever one of its statements fails;
\* when no stored transaction matches the filter and no statement fails it
\* returns the object with the three totals 0 and the three maps empty.
C16_FailureOrStatistics ==
    agg.pc = "done" =>
        /\ agg.err # NoErr <=> IsNil(agg.stats)
        /\ agg.err = NoErr /\ Subset(agg.filters) = {} =>
              agg.stats = Ptr([TotalIncome |-> 0, TotalExpenses |-> 0, Balance |-> 0,
                               ByCategoryIncome |-> <<>>, ByCategoryExpense |-> <<>>,
                               ByUserSpending |-> <<>>])

\* the per-owner statement failed after the totals and the groupings of a
\* ledger with matching transactions had been read
C16_Witness ==
    /\ agg.pc = "done"
    /\ agg.err \in UserErrors
    /\ IsNil(agg.stats)
    /\ Subset(agg.filters) # {}

(***************************************************************************)
(* What an operation leaves alone.                                         *)
(***************************************************************************)
TransactionFields ==
    {"id", "user_id", "amount", "type", "category", "description", "transaction_date",
     "receipt_path", "created_at", "updated_at"}

\* this step answers a request of the kind op
Answers(op) == resp = NoResponse /\ resp'.op = op

\* this step changes, of all that is stored, at most the given fields of
\* transaction id
ChangesOnly(id, fields) ==
    /\ DOMAIN txns' = DOMAIN txns
    /\ \A i \in DOMAIN txns :
          IF i = id
          THEN \A f \in TransactionFields \ fields : txns'[i][f] = txns[i][f]
          ELSE txns'[i] = txns[i]
    /\ users' = users

ReadOps ==
    {"GetUserTransactions", "GetAllTransactionsAdmin", "GetStatisticsAdmin",
     "ExportTransactionsCSVAdmin"}

\* C17: an UploadReceipt that succeeds changes the receipt reference and
\* updated_at of its transaction and nothing else; an UpdateTransaction that
\* succeeds changes amount, type, category, description, transaction date and
\* updated_at of its transaction and nothing else; the listings, the
\* statistics and the export change nothing.
C17_FrameEffects ==
    [][ /\ Answers("UploadReceipt") /\ resp'.err = NoErr =>
              ChangesOnly(resp'.id, {"receipt_path", "updated_at"})
        /\ Answers("UpdateTransaction") /\ resp'.err = NoErr =>
              ChangesOnly(resp'.id, {"amount", "type", "category", "description",
                                     "transaction_date", "updated_at"})
        /\ \A op \in ReadOps :
              Answers(op) => txns' = txns /\ users' = users /\ files' = files
      ]_vars

\* a receipt has been attached to a transaction that had been updated, next
\* to a transaction that is as it was created
C17_Witness ==
    /\ resp.op = "UploadReceipt"
    /\ resp.err = NoErr
    /\ txns[resp.id].amount = 2000
    /\ txns[resp.id].receipt_path = Ptr(ReceiptFilePath(resp.id, "a.pdf"))
    /\ \E i \in DOMAIN txns :
          /\ i # resp.id
          /\ txns[i].updated_at = txns[i].created_at
          /\ IsNil(txns[i].receipt_path)

\* the upload whose UpdateReceiptPath is made in this step
PathUpdated(call) == call \in calls /\ call \notin calls' /\ call.op = "UploadReceipt"

Exported == resp.op = "ExportTransactionsCSVAdmin" /\ resp.status = 200

\* the listings FindAll can return for the filter of the answered request
Listings == OrderBy(FindAll(resp.filters).set)

\* C19: the export is the header row (ID, UserID, Amount, Type, Category,
\* Description, TransactionDate, CreatedAt, ReceiptPath) followed by one row
\* for each transaction of one listing of FindAll for the filter, in the
\* listing's order, with the empty string where the description or the
\* receipt reference is absent; for an empty listing it is the header alone.
C19_HeaderThenOneRowEach ==
    Exported =>
        /\ resp.csv[1] = <<"ID", "UserID", "Amount", "Type", "Category", "Description",
                           "TransactionDate", "CreatedAt", "ReceiptPath">>
        /\ \E s \in Listings :
              /\ Range(s) = Subset(resp.filters)
              /\ Len(resp.csv) = 1 + Len(s)
              /\ \A i \in 1..Len(s) :
                    /\ Len(resp.csv[i + 1]) = 9
                    /\ resp.csv[i + 1][1] = ToString(s[i].id)
                    /\ resp.csv[i + 1][2] = ToString(s[i].user_id)
                    /\ resp.csv[i + 1][3] = ToString(s[i].amount)
                    /\ resp.csv[i + 1][4] = s[i].type
                    /\ resp.csv[i + 1][5] = s[i].category
                    /\ resp.csv[i + 1][6] =
                          (IF s[i].description = Nil THEN "" ELSE s[i].description[1])
                    /\ resp.csv[i + 1][7] = FormatRFC3339(s[i].transaction_date)
                    /\ resp.csv[i + 1][8] = FormatRFC3339(s[i].created_at)
                    /\ resp.csv[i + 1][9] =
                          (IF s[i].receipt_path = Nil THEN "" ELSE s[i].receipt_path[1])
        /\ Subset(resp.filters) = {} => resp.csv = <<CSVHeader>>

\* three transactions exported, the latest first, one with a description and
\* two without
C19_Witness ==
    /\ Exported
    /\ Len(resp.csv) = 4
    /\ resp.csv[2][1] = "3"
    /\ resp.csv[4][1] = "1"
    /\ \E i \in 2..4 : resp.csv[i][6] # ""
    /\ \E i \in 2..4 : resp.csv[i][6] = ""

\* a reader of CSV as RFC 4180 describes it, lines ended by \n: a field in
\* quotes runs to the closing quote, with "" read as one quote and commas,
\* \r and \n read as they are.  ReadRecord reads one record from stream[i..]:
\* [ok, record, next]
RECURSIVE ReadRecord(_, _, _, _, _)
ReadRecord(stream, i, mode, field, record) ==
    IF i > Len(stream)
    THEN [ok |-> FALSE, record |-> <<>>, next |-> i]
    ELSE IF mode = "field"
    THEN CASE stream[i] = Quote -> ReadRecord(stream, i + 1, "quoted", <<>>, record)
           [] stream[i] = Comma ->
                ReadRecord(stream, i + 1, "field", <<>>, Append(record, <<>>))
           [] stream[i] = LF ->
                [ok |-> TRUE, record |-> Append(record, <<>>), next |-> i + 1]
           [] OTHER -> ReadRecord(stream, i + 1, "plain", <<stream[i]>>, record)
    ELSE IF mode = "plain"
    THEN CASE stream[i] = Comma ->
                ReadRecord(stream, i + 1, "field", <<>>, Append(record, field))
           [] stream[i] = LF ->
                [ok |-> TRUE, record |-> Append(record, field), next |-> i + 1]
           [] stream[i] = Quote -> [ok |-> FALSE, record |-> <<>>, next |-> i]
           [] OTHER -> ReadRecord(stream, i + 1, "plain", Append(field, stream[i]), record)
    ELSE IF mode = "quoted"
    THEN IF stream[i] = Quote
         THEN ReadRecord(stream, i + 1, "closing", field, record)
         ELSE ReadRecord(stream, i + 1, "quoted", Append(field, stream[i]), record)
    ELSE CASE stream[i] = Quote ->
                ReadRecord(stream, i + 1, "quoted", Append(field, Quote), record)
           [] stream[i] = Comma ->
                ReadRecord(stream, i + 1, "field", <<>>, Append(record, field))
           [] stream[i] = LF ->
                [ok |-> TRUE, record |-> Append(record, field), next |-> i + 1]
           [] OTHER -> [ok |-> FALSE, record |-> <<>>, next |-> i]

\* the records read from stream[i..] after those read so far, <<>> when the
\* stream is not CSV
RECURSIVE ReadRecords(_, _, _)
RECURSIVE ReadOn(_, _, _)
ReadOn(stream, records, r) ==
    IF r.ok THEN ReadRecords(stream, r.next, Append(records, r.record)) ELSE <<>>

ReadRecords(stream, i, records) ==
    IF i > Len(stream) THEN records
    ELSE ReadOn(stream, records, ReadRecord(stream, i, "field", <<>>, <<>>))

ParseCSV(stream) == ReadRecords(stream, 1, <<>>)

\* the string a text spells
RECURSIVE Concat(_)
Concat(text) == IF text = <<>> THEN "" ELSE Head(text) \o Concat(Tail(text))

\* the number a text of decimal digits spells, -1 when it is not one
RECURSIVE ParseDigits(_, _)
ParseDigits(text, n) ==
    IF text = <<>> THEN n
    ELSE IF \E d \in 0..9 : ToString(d) = Head(text)
    THEN ParseDigits(Tail(text), 10 * n + (CHOOSE d \in 0..9 : ToString(d) = Head(text)))
    ELSE 0 - 1

ParseInt(text) == IF text = <<>> THEN 0 - 1 ELSE ParseDigits(text, 0)

\* the records parsed are the header and, row by row, the id, amount, type
\* and category of the listing s
Recovers(parsed, s) ==
    /\ Len(parsed) = 1 + Len(s)
    /\ \A i \in 1..Len(s) :
          /\ Len(parsed[i + 1]) = 9
          /\ ParseInt(parsed[i + 1][1]) = s[i].id
          /\ ParseInt(parsed[i + 1][3]) = s[i].amount
          /\ Concat(parsed[i + 1][4]) = s[i].type
          /\ Concat(parsed[i + 1][5]) = s[i].category

\* the texts written spell the records handed to the csv.Writer
Spells(s, records) ==
    \A i \in 1..Len(s), j \in 1..9 : Concat(CSVFields(s[i])[j]) = records[i + 1][j]

\* C20: for the listing exported, reading the bytes of the export as CSV
\* gives back, row by row, the id, amount, type and category of each
\* transaction, whatever commas, quotes, carriage returns and line feeds the
\* categories and descriptions hold.
C20_ExportRoundTrip ==
    Exported =>
        \A s \in Listings :
            resp.csv = CSVRecords(s) =>
                Spells(s, resp.csv) /\ Recovers(ParseCSV(Buffer(s)), s)

\* an export of three transactions whose categories hold a comma, a quote
\* and \r\n
C20_Witness ==
    /\ Exported
    /\ Len(resp.csv) = 4
    /\ {resp.csv[i][5] : i \in 2..4} = {"a,b", "say \"hi\"", "cr\r\nlf"}

(***************************************************************************)
(* Specification SpecTypes: the four filtered operations asked for a type  *)
(* of the enum, for no type, and for a type outside the enum.              *)
(***************************************************************************)
TypesCreateRequests ==
    { CreateTransactionRequest(1000, "expense", "food", Nil, Noon(1)),
      CreateTransactionRequest(5000, "income", "salary", Nil, Noon(2)) }

\* the values of the query parameter type: absent, the two of the enum, one
\* outside it, and one of the enum in another case
TypeParams == {"", "income", "expense", "other", "INCOME"}

TypesUserQueries == {UserQuery(ty, "", "") : ty \in TypeParams}

TypesQueries == {Query("", ty, "", "", "") : ty \in TypeParams}

NextTypes ==
    \/ \E u \in Owners, req \in TypesCreateRequests :
          CreateTransaction(u, req, CreationTime(nextID))
    \/ \E u \in Owners, q \in TypesUserQueries : GetMyTransactions(u, q)
    \/ \E q \in TypesQueries : GetAllTransactionsAdmin(q)
    \/ \E q \in TypesQueries : GetStatisticsAdmin(q)
    \/ \E q \in TypesQueries : ExportTransactionsCSVAdmin(q)
    \/ Respond

SpecTypes == Init /\ [][NextTypes]_vars

\* the four operations that take a filter
FilteredOps ==
    {"GetUserTransactions", "GetAllTransactionsAdmin", "GetStatisticsAdmin",
     "ExportTransactionsCSVAdmin"}

\* the answer to a filtered request whose filter was handed to the store
FilterApplied == resp.op \in FilteredOps /\ resp.status # 400

(***************************************************************************)
(* C21: a filter whose type is outside {income, expense} is rejected with  *)
(* a validation outcome by the user listing, the admin listing, the admin  *)
(* statistics and the admin CSV export, and is never applied to the store: *)
(* whenever a filter was handed to the store, its type is absent or one of *)
(* the two.                                                                *)
(***************************************************************************)
C21_OutOfEnumTypeIsRejected ==
    FilterApplied =>
        IF IsNil(resp.filters.Type) THEN TRUE ELSE Deref(resp.filters.Type) \in Types

\* a type outside the enum was applied to a store holding transactions, and
\* the request was answered as a success
C21_Witness ==
    /\ FilterApplied
    /\ resp.status = 200
    /\ resp.filters.Type = Ptr("other")
    /\ Len(txns) = 2

(***************************************************************************)
(* Specification SpecAmounts: create and update requests whose amount is   *)
(* positive, zero or negative and whose type is in the enum or not.        *)
(***************************************************************************)
AmountsCreateRequests ==
    {CreateTransactionRequest(a, ty, "food", Nil, Noon(1)) :
        a \in {1000, 0, -5}, ty \in {"expense", "other"}}

\* an update of the amount, of the type, of both or of neither
AmountsUpdateRequests ==
    {UpdateTransactionRequest(a, ty, Nil, Nil, Nil) :
        a \in {Nil, Ptr(2000), Ptr(0), Ptr(-5)},
        ty \in {Nil, Ptr("income"), Ptr("other")}}

NextAmounts ==
    \/ \E req \in AmountsCreateRequests : CreateTransaction(1, req, CreationTime(nextID))
    \/ \E u \in Owners, id \in 1..MaxTx, req \in AmountsUpdateRequests :
          UpdateTransaction(u, id, req, Noon(2))
    \/ Respond

SpecAmounts == Init /\ [][NextAmounts]_vars

\* the step answers a create or update request with a refusal
WriteRefused ==
    /\ resp'.op \in {"CreateTransaction", "UpdateTransaction"}
    /\ resp'.status \notin {200, 201}

(***************************************************************************)
(* C22: after any sequence of create and update requests accepted through  *)
(* the handlers every stored transaction has amount > 0 and a type in      *)
(* {income, expense}; a request that is refused leaves the store unchanged *)
(* (so a request that would store a zero or negative amount or another     *)
(* type has to be refused).                                                *)
(***************************************************************************)
C22_StoredAmountsPositiveTypesInEnum ==
    [][/\ \A i \in DOMAIN txns' : txns'[i].amount > 0 /\ txns'[i].type \in Types
       /\ WriteRefused => txns' = txns]_vars

\* an update to a zero or negative amount was answered 200 and is stored
C22_Witness ==
    /\ resp.op = "UpdateTransaction"
    /\ resp.status = 200
    /\ \E t \in Rows : t.amount <= 0

(***************************************************************************)
(* Specification SpecTokens: tokens issued by a JWTUtil and handed to a    *)
(* JWTUtil, the same or another, and tokens made elsewhere.                *)
(***************************************************************************)
TokenSecrets == {"secret1", "secret2"}

\* expirationHours: an hour, a day, the longest duration an int64 holds, an
\* hour more, 3000000 hours, none and an hour ago
TokenExpirations == {1, 24, MaxDurationHours, MaxDurationHours + 1, 3000000, 0, -1}

TokenUtils == {NewJWTUtil(s, h) : s \in TokenSecrets, h \in TokenExpirations}

TokenUserIDs == {1, 2}

TokenRoles == {RoleUser, RoleAdmin, ""}

\* token strings GenerateToken does not return: a string that is no JWT, and
\* tokens with another alg, signed with one of the secrets where the method
\* signs with a secret
ForeignTokens ==
    {Token(FALSE, "", "", FALSE, 0, "")}
    \cup {Token(TRUE, alg, s, FALSE, 1, RoleUser) :
             alg \in {"HS384", "HS512"}, s \in TokenSecrets}
    \cup {Token(TRUE, "RS256", "private key", FALSE, 1, RoleUser),
          Token(TRUE, "none", "", FALSE, 1, RoleUser)}

\* a call of GenerateToken on ju
GenerateTokenCall(ju, userID, role) ==
    /\ Idle
    /\ resp' = [op |-> "GenerateToken", ju |-> ju, userID |-> userID, role |-> role,
                token |-> GenerateToken(ju, userID, role)]
    /\ UNCHANGED <<users, txns, nextID, agg, calls, files, ctx, db>>

\* the token just returned is handed to ValidateToken on ju
ValidateGenerated(ju) ==
    /\ resp.op = "GenerateToken"
    /\ resp' = [op |-> "ValidateToken", ju |-> ju, generated |-> TRUE,
                issuer |-> resp.ju, userID |-> resp.userID, role |-> resp.role,
                token |-> resp.token, result |-> ValidateToken(ju, resp.token)]
    /\ UNCHANGED <<users, txns, nextID, agg, calls, files, ctx, db>>

\* a token string made elsewhere is handed to ValidateToken on ju
ValidateForeign(ju, tokenString) ==
    /\ Idle
    /\ resp' = [op |-> "ValidateToken", ju |-> ju, generated |-> FALSE,
                issuer |-> ju, userID |-> tokenString.user_id,
                role |-> tokenString.role,
                token |-> tokenString, result |-> ValidateToken(ju, tokenString)]
    /\ UNCHANGED <<users, txns, nextID, agg, calls, files, ctx, db>>

NextTokens ==
    \/ \E ju \in TokenUtils, u \in TokenUserIDs, r \in TokenRoles :
          GenerateTokenCall(ju, u, r)
    \/ \E ju \in TokenUtils : ValidateGenerated(ju)
    \/ \E ju \in TokenUtils, tok \in ForeignTokens : ValidateForeign(ju, tok)
    \/ Respond

SpecTokens == Init /\ [][NextTokens]_vars

\* ValidateToken has returned
Validated == resp.op = "ValidateToken"

\* ... for a token GenerateToken returned on a JWTUtil with the same secret
ValidatedOwn ==
    /\ Validated
    /\ resp.generated
    /\ resp.issuer.secretKey = resp.ju.secretKey

\* the returned claims carry exactly the user id and role given to GenerateToken
RoundTrip ==
    /\ resp.result.err = NoErr
    /\ resp.result.claims = Ptr([UserID |-> resp.userID, Role |-> resp.role])

\* an error and no claims
Rejected == resp.result.err # NoErr /\ IsNil(resp.result.claims)

\* C23 as stated: the token round trip for every positive expiration
C23_RoundTripAnyPositiveExpiration ==
    (ValidatedOwn /\ resp.issuer.expirationHours > 0) => RoundTrip

(***************************************************************************)
(* C23: token round trip.  For every user id and role and a JWTUtil whose  *)
(* expiration is positive and no longer than a time.Duration holds,        *)
(* ValidateToken applied to the token returned by GenerateToken(userID,    *)
(* role) on a JWTUtil with the same secret succeeds and returns claims     *)
(* carrying exactly that user id and role.                                 *)
(***************************************************************************)
C23_TokenRoundTrip ==
    (ValidatedOwn /\ resp.issuer.expirationHours \in 1..MaxDurationHours) => RoundTrip

\* the round trip of the administrator's token at the longest expiration
C23_Witness ==
    /\ ValidatedOwn
    /\ resp.issuer.expirationHours = MaxDurationHours
    /\ resp.role = RoleAdmin
    /\ RoundTrip

C25_OnlyHS256IsAccepted ==
    (Validated /\ resp.token.segments /\ resp.token.alg # "HS256") =>
        Rejected /\ resp.result.is = "unexpected signing method"

\* an HS384 token signed with the validator's secret has been accepted
C25_Witness ==
    /\ Validated
    /\ resp.token.alg = "HS384"
    /\ resp.token.key = resp.ju.secretKey
    /\ resp.result.err = NoErr

(***************************************************************************)
(* DeleteTransaction in two steps: the service's lookup and checks, then   *)
(* the repository's DELETE.  The service holds no lock between them.       *)
(***************************************************************************)
\* transactionService.DeleteTransaction up to the call of repo.Delete
DeleteLookup(userID, userRole, transactionID) ==
    /\ Idle
    /\ IF IsNil(FindByID(transactionID))
       THEN /\ resp' = TransactionResponse("DeleteTransaction", userID, transactionID,
                                           ErrTransactionNotFound)
            /\ UNCHANGED calls
       ELSE IF userRole # RoleAdmin /\ Deref(FindByID(transactionID)).user_id # userID
       THEN /\ resp' = TransactionResponse("DeleteTransaction", userID, transactionID,
                                           ErrForbidden)
            /\ UNCHANGED calls
       ELSE /\ calls' = calls \cup
                  {[op |-> "DeleteTransaction", userID |-> userID,
                    userRole |-> userRole, id |-> transactionID]}
            /\ UNCHANGED resp
    /\ UNCHANGED <<users, txns, nextID, agg, files, ctx, db>>

\* transactionRepository.Delete for the call, the service's wrapping of its
\* error and the handler's answer
DeleteApply(call) ==
    /\ Idle
    /\ call \in calls
    /\ call.op = "DeleteTransaction"
    /\ calls' = calls \ {call}
    /\ txns' = Delete(call.id).table
    /\ resp' = TransactionResponse("DeleteTransaction", call.userID, call.id,
                  IF Delete(call.id).err = NoErr THEN NoErr
                  ELSE "failed to delete transaction in repo")
    /\ UNCHANGED <<users, nextID, agg, files, ctx, db>>

(***************************************************************************)
(* Specification SpecDeletes: deletions by the owner, by another user and  *)
(* by the administrator, overlapping.                                      *)
(***************************************************************************)
NextDeletes ==
    \/ \E u \in OwnershipOwners, req \in AccessCreateRequests :
          CreateTransaction(u, req, CreationTime(nextID))
    \/ \E c \in Callers, id \in 1..MaxTx :
          Cardinality(calls) < MaxCalls /\ DeleteLookup(c[1], c[2], id)
    \/ \E call \in calls : DeleteApply(call)
    \/ Respond

SpecDeletes == Init /\ [][NextDeletes]_vars

\* the step runs the DELETE of the call
Deleted(call) == call \in calls /\ call \notin calls' /\ call.op = "DeleteTransaction"

\* C26 as stated: a DeleteTransaction whose DELETE finds no row with the id
\* reports ErrTransactionNotFound, and one whose DELETE finds it succeeds: of
\* two authorized calls for the same id that interleave, one succeeds and the
\* other returns ErrTransactionNotFound.
C26_LateDeleteIsNotFound ==
    [][\A call \in calls :
          Deleted(call) =>
              resp'.err = IF call.id \in DOMAIN txns THEN NoErr
                          ELSE ErrTransactionNotFound]_vars

\* the second of two overlapping deletions of a transaction has been
\* answered 500
C26_Witness ==
    /\ resp.op = "DeleteTransaction"
    /\ resp.status = 500
    /\ resp.id \notin DOMAIN txns
    /\ calls = {}

(***************************************************************************)
(* Registration and login.  A row of users is [id, phone, password_hash,   *)
(* role].  Register looks the phone up and later inserts the user; nothing *)
(* is locked between the two statements.                                   *)
(***************************************************************************)
ErrUserAlreadyExists == "user with this phone number already exists"
ErrInvalidCredentials == "invalid phone or password"

\* utils.HashPassword: an opaque hash that is not the password
HashPassword(password) == <<"bcrypt", password>>

\* utils.CheckPasswordHash
CheckPasswordHash(password, hash) == hash = HashPassword(password)

\* the length of the passwords of the model
PasswordLen(password) ==
    CASE password = "" -> 0
      [] password = "12345" -> 5
      [] OTHER -> 8

\* binding:"required" on phone, binding:"required,min=6" on password
RegisterBindingOK(phone, password) == phone # "" /\ PasswordLen(password) >= 6

\* userRepository.FindByPhone: nil when no row has the phone
FindByPhone(phone) ==
    IF \E u \in users : u.phone = phone
    THEN Ptr(CHOOSE u \in users : u.phone = phone)
    ELSE Nil

\* the next value of the SERIAL id of users, without the values that failed
\* inserts leave unused
NextUserID == IF users = {} THEN 1 ELSE 1 + Cardinality(users)

\* userRepository.Create: phone is UNIQUE; [err, user, table]
CreateUser(user) ==
    IF \E u \in users : u.phone = user.phone
    THEN [err |-> "failed to create user", user |-> user, table |-> users]
    ELSE [err |-> NoErr, user |-> [user EXCEPT !.id = NextUserID],
          table |-> users \cup {[user EXCEPT !.id = NextUserID]}]

\* the role every registration gets when INITIAL_ADMIN_PHONE is set
RegisterRole_AnyPhoneWhenConfigured(phone, initialAdminPhone) ==
    IF initialAdminPhone # "" THEN RoleAdmin ELSE RoleUser

\* the role authService.Register gives, INITIAL_ADMIN_PHONE being
\* initialAdminPhone when it is read
RegisterRole(phone, initialAdminPhone) ==
    IF initialAdminPhone # "" /\ phone = initialAdminPhone THEN RoleAdmin ELSE RoleUser

\* the answer of POST /auth/register
RegisterResponse(phone, initialAdminPhone, err, user) ==
    [op |-> "Register", phone |-> phone, initialAdminPhone |-> initialAdminPhone,
     err |-> err,
     status |-> IF err = NoErr THEN 201
                ELSE IF err = "validation" THEN 400
                ELSE IF err = ErrUserAlreadyExists THEN 409
                ELSE 500,
     user |-> user]

\* AuthHandler.Register and authService.Register up to the hashing of the
\* password
RegisterLookup(phone, password) ==
    /\ Idle
    /\ IF ~RegisterBindingOK(phone, password)
       THEN /\ resp' = RegisterResponse(phone, "", "validation", Nil)
            /\ UNCHANGED calls
       ELSE IF ~IsNil(FindByPhone(phone))
       THEN /\ resp' = RegisterResponse(phone, "", ErrUserAlreadyExists, Nil)
            /\ UNCHANGED calls
       ELSE /\ calls' = calls \cup
                  {[op |-> "Register", phone |-> phone,
                    hashedPassword |-> HashPassword(password)]}
            /\ UNCHANGED resp
    /\ UNCHANGED <<users, txns, nextID, agg, files, ctx, db>>

\* authService.Register from os.Getenv("INITIAL_ADMIN_PHONE") on: the role,
\* userRepo.Create, the token and the handler's answer
RegisterCreate(call, initialAdminPhone) ==
    /\ Idle
    /\ call \in calls
    /\ call.op = "Register"
    /\ calls' = calls \ {call}
    /\ LET user == [id |-> 0, phone |-> call.phone,
                    password_hash |-> call.hashedPassword,
                    role |-> RegisterRole(call.phone, initialAdminPhone)]
           r == CreateUser(user)
       IN /\ users' = r.table
          /\ resp' = IF r.err # NoErr
                     THEN RegisterResponse(call.phone, initialAdminPhone,
                                           "failed to create user in repository", Nil)
                     ELSE RegisterResponse(call.phone, initialAdminPhone, NoErr,
                                           Ptr(r.user))
    /\ UNCHANGED <<txns, nextID, agg, files, ctx, db>>

\* POST /auth/login: AuthHandler.Login and authService.Login
Login(phone, password) ==
    /\ Idle
    /\ LET user == FindByPhone(phone)
       IN IF phone = "" \/ password = ""
          THEN resp' = [op |-> "Login", phone |-> phone, status |-> 400,
                        err |-> "validation"]
          ELSE IF IsNil(user)
          THEN resp' = [op |-> "Login", phone |-> phone, status |-> 401,
                        err |-> ErrInvalidCredentials]
          ELSE IF ~CheckPasswordHash(password, Deref(user).password_hash)
          THEN resp' = [op |-> "Login", phone |-> phone, status |-> 401,
                        err |-> ErrInvalidCredentials]
          ELSE resp' = [op |-> "Login", phone |-> phone, status |-> 200, err |-> NoErr,
                        token |-> GenerateToken(jwtUtil, Deref(user).id, Deref(user).role)]
    /\ UNCHANGED <<users, txns, nextID, agg, calls, files, ctx, db>>

(***************************************************************************)
(* Specification SpecRegister: registrations and logins on a users table   *)
(* that starts empty, with INITIAL_ADMIN_PHONE unset or set to one phone.  *)
(***************************************************************************)
InitRegister ==
    /\ users = {}
    /\ txns = <<>>
    /\ nextID = 1
    /\ resp = NoResponse
    /\ agg = NoAgg
    /\ calls = {}
    /\ files = <<>>
    /\ ctx = NoContext
    /\ db = Connected

RegisterPhones == {"+998900000001", "+998900000002"}

RegisterPasswords == {"password", "hunter22", "12345"}

\* the values of INITIAL_ADMIN_PHONE: unset, or the first phone
AdminPhones == {"", "+998900000001"}

NextRegister ==
    \/ \E phone \in RegisterPhones \cup {""}, password \in RegisterPasswords :
          Cardinality(calls) < MaxCalls /\ RegisterLookup(phone, password)
    \/ \E call \in calls, initialAdminPhone \in AdminPhones :
          RegisterCreate(call, initialAdminPhone)
    \/ \E phone \in RegisterPhones, password \in RegisterPasswords :
          Login(phone, password)
    \/ Respond

SpecRegister == InitRegister /\ [][NextRegister]_vars

\* the step answers a call of authService.Register for a phone that is
\* registered when the call returns
RegisterOfRegisteredPhone ==
    /\ resp'.op = "Register"
    /\ resp' # resp
    /\ resp'.status # 400
    /\ \E u \in users : u.phone = resp'.phone

\* C27 as stated: after any interleaving of Register calls at most one user
\* exists per phone number, and every Register call for a phone that is
\* already registered, one that loses a race with a concurrent Register call
\* for the same phone included, returns ErrUserAlreadyExists, reported as
\* conflict.
C27_RegisteredPhoneIsConflict ==
    [][/\ \A u, v \in users' : u.phone = v.phone => u = v
       /\ RegisterOfRegisteredPhone =>
             resp'.err = ErrUserAlreadyExists /\ resp'.status = 409]_vars

\* the loser of a race for a phone has been answered 500
C27_Witness ==
    /\ resp.op = "Register"
    /\ resp.status = 500
    /\ \E u \in users : u.phone = resp.phone

(***************************************************************************)
(* C28: a user has the admin role only if that user was registered with a  *)
(* phone equal to a non-empty INITIAL_ADMIN_PHONE configured at the time   *)
(* of registration; every other registration yields role user, and no      *)
(* operation changes a user's role afterwards.  Over the steps: a row of   *)
(* users never changes, and a new row comes from a registration answered   *)
(* 201 and has the role admin exactly when its phone is the non-empty      *)
(* INITIAL_ADMIN_PHONE the registration read.                              *)
(***************************************************************************)
C28_AdminOnlyByInitialAdminPhone ==
    [][/\ \A u \in users : u \in users'
       /\ \A u \in users' \ users :
             /\ resp'.op = "Register" /\ resp'.status = 201
             /\ resp'.user = Ptr(u)
             /\ u.role = IF /\ resp'.initialAdminPhone # ""
                            /\ u.phone = resp'.initialAdminPhone
                         THEN RoleAdmin ELSE RoleUser]_vars

\* an administrator and a user are registered, the user while
\* INITIAL_ADMIN_PHONE was set, and the user has logged in
C28_Witness ==
    /\ \E u \in users : u.role = RoleAdmin /\ u.phone = "+998900000001"
    /\ \E u \in users : u.role = RoleUser /\ u.phone = "+998900000002"
    /\ resp.op = "Login"
    /\ resp.status = 200
    /\ resp.token.role = RoleUser

(***************************************************************************)
(* ConnectDB step by step: pgxpool.New, pool.Ping, time.Sleep.  db.log is  *)
(* the outcome of the attempts made so far.                                *)
(***************************************************************************)
\* pgxpool.New(context.Background(), cfg.DSN) of the current attempt
PoolNew(err) ==
    /\ db.pc = "New"
    /\ db' = IF err = NoErr
             THEN [db EXCEPT !.pc = "Ping", !.pool = Ptr(db.i + 1), !.err = NoErr]
             ELSE [db EXCEPT !.pc = "Sleep", !.pool = Nil, !.err = err,
                             !.log = Append(@, err)]
    /\ UNCHANGED <<users, txns, nextID, resp, agg, calls, files, ctx>>

\* pool.Ping(context.Background()); return pool, nil when it succeeds
PoolPing(err) ==
    /\ db.pc = "Ping"
    /\ db' = IF err = NoErr
             THEN [db EXCEPT !.pc = "returned", !.err = NoErr, !.log = Append(@, NoErr)]
             ELSE [db EXCEPT !.pc = "Sleep", !.err = err, !.log = Append(@, err)]
    /\ UNCHANGED <<users, txns, nextID, resp, agg, calls, files, ctx>>

\* time.Sleep(retryInterval), i++ and the loop condition; after the loop
\* return nil, fmt.Errorf("unable to connect to database after %d attempts: %w")
Sleep ==
    /\ db.pc = "Sleep"
    /\ db' = IF LoopContinues(db.i + 1)
             THEN [db EXCEPT !.pc = "New", !.i = @ + 1]
             ELSE [db EXCEPT !.pc = "returned", !.i = @ + 1, !.pool = Nil,
                             !.err = "unable to connect to database after 5 attempts"]
    /\ UNCHANGED <<users, txns, nextID, resp, agg, calls, files, ctx>>

(***************************************************************************)
(* Specification SpecConnect: ConnectDB from its call, each attempt        *)
(* failing at the creation of the pool, failing at the ping, or            *)
(* succeeding.  ConnectDB is straight-line code run by main: each of its   *)
(* steps is taken once it is reached, pgxpool.New, Ping and Sleep being    *)
(* taken to return.                                                        *)
(***************************************************************************)
InitConnect ==
    /\ users = {}
    /\ txns = <<>>
    /\ nextID = 1
    /\ resp = NoResponse
    /\ agg = NoAgg
    /\ calls = {}
    /\ files = <<>>
    /\ ctx = NoContext
    /\ db = [pc |-> "New", i |-> 0, pool |-> Nil, err |-> NoErr, log |-> <<>>]

\* the ways an attempt fails
NewErrors == {"failed to create connection pool"}
PingErrors == {"connection refused"}

NextConnect ==
    \/ \E err \in NewErrors \cup {NoErr} : PoolNew(err)
    \/ \E err \in PingErrors \cup {NoErr} : PoolPing(err)
    \/ Sleep

SpecConnect == InitConnect /\ [][NextConnect]_vars /\ WF_vars(NextConnect)

\* ConnectDB has returned
Returned == db.pc = "returned"

\* the attempts that failed, among the first n
FailedAmong(n) == {k \in 1..n : db.log[k] # NoErr}

\* what holds of ConnectDB at every moment and at its return
ConnectOutcome ==
    /\ Len(db.log) <= maxRetries
    /\ \A k \in 1..Len(db.log) : db.log[k] = NoErr => k = Len(db.log) /\ Returned
    /\ Returned =>
          /\ (db.err = NoErr) <=> ~IsNil(db.pool)
          /\ ~IsNil(db.pool) =>
                /\ db.log[Len(db.log)] = NoErr
                /\ db.pool = Ptr(Len(db.log))
          /\ (db.err # NoErr) <=>
                (Len(db.log) = maxRetries /\ FailedAmong(maxRetries) = 1..maxRetries)

(***************************************************************************)
(* C29: ConnectDB terminates after at most 5 connection attempts: it       *)
(* returns the pool at the first attempt whose pool creation and ping both *)
(* succeed and makes no further attempt, and it returns an error and no    *)
(* pool if and only if all 5 attempts fail.                                *)
(***************************************************************************)
C29_ConnectDBTerminates == []ConnectOutcome /\ <>Returned

\* the pool of the third attempt was returned after the creation of the
\* first pool and the ping of the second had failed
C29_Witness ==
    /\ Returned
    /\ db.pool = Ptr(3)
    /\ db.log = <<"failed to create connection pool", "connection refused", NoErr>>

(***************************************************************************)
(* UploadReceipt when io.Copy fails: os.Create has truncated the file at   *)
(* the path, a part of the upload is written, and the service returns      *)
(* without removing the file and without touching the row.                 *)
(***************************************************************************)
\* what io.Copy may have written when it fails: a proper prefix of content
ProperPrefixes(content) == {SubSeq(content, 1, n) : n \in 0..(Len(content) - 1)}

UploadReceiptCopyFails(userID, transactionID, fileHeader, written) ==
    /\ Idle
    /\ UploadReceiptCheck(transactionID, userID, fileHeader) = NoErr
    /\ written \in ProperPrefixes(fileHeader.Content)
    /\ files' = WriteFile(ReceiptFilePath(transactionID, fileHeader.Filename), written)
    /\ resp' = TransactionResponse("UploadReceipt", userID, transactionID,
                                   "failed to save file")
    /\ UNCHANGED <<users, txns, nextID, agg, calls, ctx, db>>

(***************************************************************************)
(* Specification SpecReceipts: receipts uploaded one after another for the *)
(* transactions of user 1, under two names and with two contents for one   *)
(* name; the copy or the update of the row may fail.                       *)
(***************************************************************************)
ReceiptFiles ==
    { FileHeader("a.pdf", 1024, <<"A1", "A2">>),
      FileHeader("a.pdf", 2048, <<"B1", "B2">>),
      FileHeader("b.PNG", 512, <<"C1">>) }

NextReceipts ==
    \/ \E req \in AccessCreateRequests :
          nextID < MaxTx - 1 /\ CreateTransaction(1, req, CreationTime(nextID))
    \/ \E id \in 1..MaxTx, fh \in ReceiptFiles :
          calls = {} /\ UploadReceiptSave(1, id, fh)
    \/ \E call \in calls, storeFails \in BOOLEAN :
          UploadReceiptUpdatePath(call, storeFails, Noon(2))
    \/ \E id \in 1..MaxTx, fh \in ReceiptFiles :
          \E written \in ProperPrefixes(fh.Content) :
             calls = {} /\ UploadReceiptCopyFails(1, id, fh, written)
    \/ \E id \in 1..MaxTx : calls = {} /\ GetReceipt(1, RoleUser, id)
    \/ Respond

SpecReceipts == Init /\ [][NextReceipts]_vars

\* after the step the row id refers to the file ref (a pointer to a path),
\* and that file holds what the pointer content holds
StillRefers(id, ref, content) ==
    /\ txns'[id].receipt_path = ref
    /\ Deref(ref) \in DOMAIN files'
    /\ files'[Deref(ref)] = Deref(content)

\* the step ends an upload, begun with the call, whose update of the row fails
MetadataUpdateFails(call) ==
    /\ call \in calls
    /\ call \notin calls'
    /\ call.op = "UploadReceipt"
    /\ resp'.err # NoErr

\* the step is an upload whose copy fails
CopyFails == resp' # resp /\ resp'.op = "UploadReceipt" /\ resp'.err = "failed to save file"

\* C30 as stated: a failed UploadReceipt never destroys an existing receipt.
\* If before the call the transaction's stored receipt reference pointed to
\* an existing file, then after a call that returns an error (the copy of the
\* file fails, or the update of the row fails) the stored reference still
\* points to an existing file with that content, also when the uploaded file
\* has the name of the existing one.
C30_FailedUploadKeepsReceipt ==
    [][/\ \A call \in calls :
             LET ref == call.transaction.receipt_path
                 before == IF ref = Ptr(call.filePath) THEN call.previous
                           ELSE IF IsNil(ref) THEN Nil ELSE ReadFile(Deref(ref))
             IN (MetadataUpdateFails(call) /\ ~IsNil(ref) /\ ~IsNil(before)) =>
                    StillRefers(call.id, ref, before)
       /\ CopyFails =>
             LET ref == txns[resp'.id].receipt_path
                 before == IF IsNil(ref) THEN Nil ELSE ReadFile(Deref(ref))
             IN (~IsNil(ref) /\ ~IsNil(before)) => StillRefers(resp'.id, ref, before)]_vars

\* an upload under the name of the stored receipt has failed at the update
\* of the row, and the row refers to a file that is no longer there
C30_Witness ==
    /\ resp.op = "UploadReceipt"
    /\ resp.err = "failed to update transaction with receipt path"
    /\ resp.id \in DOMAIN txns
    /\ txns[resp.id].receipt_path = Ptr("uploads/transactions/1/a.pdf")
    /\ "uploads/transactions/1/a.pdf" \notin DOMAIN files

====
